---- MODULE Spec2Model ----
(***************************************************************************)
(* Glimmer: the command registry and the interaction dispatcher            *)
(* (src/src/index.ts), over the command model of src/unnamed/part_001      *)
(* (the command-types revision index.ts imports) and the Module of         *)
(* src/src/module.ts.                                                      *)
(*                                                                         *)
(* The three command tables and a category's subcommand mapping are plain  *)
(* JavaScript objects created by `{}`: a property read, the `in` operator  *)
(* and an assignment all go through the prototype chain, so the model      *)
(* keeps an object's own properties and its prototype apart.               *)
(*                                                                         *)
(* Spec runs addModules and the dispatcher; SpecEvents adds modules with   *)
(* event handlers and emits their events; SpecPublish adds refreshCommands *)
(* (toDiscord of src/unnamed/part_001); SpecDiscovery runs                 *)
(* Module.fromDirectory (src/src/module.ts) on a set of directory trees,   *)
(* its readdir and import calls completing in any order.                   *)
(* SpecConvert constructs one command of any class and calls toSubCommand,  *)
(* toNormalCommand and toDiscord on it; SpecConcurrent runs the listener as *)
(* the asynchronous function it is, several dispatches in flight at once.  *)
(* SpecMapping lets the application put subcommands into the public        *)
(* `subcommands` mapping of a registered category and delete them from it. *)
(***************************************************************************)
EXTENDS Integers, Sequences, FiniteSets, TLC

\* Most modules passed to one addModules call.
MaxModules == 2
\* Cap on the listeners subscribed to the client (the constructor adds two).
MaxListeners == 3
\* The same cap where modules subscribe several event handlers.
MaxEventListeners == 5
\* Most refreshCommands calls in one run.
MaxRefreshes == 2

----------------------------------------------------------------------------
(* JavaScript values *)

Undefined == [type |-> "undefined"]
\* Object.prototype itself, the prototype of an object created by `{}`.
ObjectPrototype == [type |-> "Object.prototype"]
\* A member of Object.prototype reached through the prototype chain
\* (Object.prototype.constructor): defined, and not a command.
Inherited(key) == [type |-> "inherited", key |-> key]

Command(id, kind, name) ==
    [type |-> "command", id |-> id, kind |-> kind, name |-> name]

\* The property keys the model distinguishes.
Keys == {"ping", "constructor", "__proto__", "ban", "kick"}
\* Keys every object inherits from Object.prototype.
ObjectPrototypeKeys == {"constructor", "__proto__"}

\* `{}`
EmptyObject == [own |-> [k \in Keys |-> Undefined], proto |-> ObjectPrototype]

\* `key in object`
Has(object, key) ==
    \/ object.own[key] # Undefined
    \/ key \in ObjectPrototypeKeys

\* `object[key]`
Get(object, key) ==
    IF object.own[key] # Undefined THEN object.own[key]
    ELSE IF key = "__proto__" THEN object.proto
    ELSE IF key \in ObjectPrototypeKeys THEN Inherited(key)
    ELSE Undefined

\* `object[key] = value`, value an object
Set(object, key, value) ==
    IF key = "__proto__" THEN [object EXCEPT !.proto = value]
    ELSE [object EXCEPT !.own[key] = value]

----------------------------------------------------------------------------
(* Commands, event handlers and modules the application holds *)

T1 == Command("T1", "NormalCommand", "ping")
T2 == Command("T2", "NormalCommand", "ping")
T3 == Command("T3", "NormalCommand", "ping")
K1 == Command("K1", "CategoryCommand", "ping")
K2 == Command("K2", "CategoryCommand", "constructor")
P2 == Command("P2", "NormalCommand", "__proto__")
U1 == Command("U1", "UserContextMenuCommand", "ping")
U2 == Command("U2", "UserContextMenuCommand", "ping")
U3 == Command("U3", "UserContextMenuCommand", "constructor")
G1 == Command("G1", "MessageContextMenuCommand", "ping")
G2 == Command("G2", "MessageContextMenuCommand", "ping")
G3 == Command("G3", "MessageContextMenuCommand", "__proto__")
S0 == Command("S0", "SubCommand", "ping")
S1 == Command("S1", "SubCommand", "ban")
S2 == Command("S2", "SubCommand", "kick")
S3 == Command("S3", "SubCommand", "ban")
S4 == Command("S4", "SubCommand", "__proto__")

EventHandler(id, eventType) == [id |-> id, eventType |-> eventType]
E1 == EventHandler("E1", "ready")
E2 == EventHandler("E2", "ready")
E3 == EventHandler("E3", "messageCreate")

Module(commands, events) == [commands |-> commands, events |-> events]

Modules ==
    { Module(<<T1, U1, G1>>, <<E1>>),
      Module(<<K1, U2>>, <<>>),
      Module(<<G2, T2, T3>>, <<>>),
      Module(<<K2, P2, U3, G3, S0>>, <<>>) }

\* The argument lists of one addModules call.
ModuleLists == UNION { [1..n -> Modules] : n \in 1..MaxModules }

\* Modules that subscribe event handlers, two of them to the same event.
EventModules ==
    { Module(<<T1>>, <<E1>>),
      Module(<<>>, <<E3, E2>>),
      Module(<<U1>>, <<E2, E1>>) }

EventModuleLists == UNION { [1..n -> EventModules] : n \in 1..MaxModules }

\* The subcommand mappings of the categories, as discovery fills them:
\* command.subcommands[subcommand.name] = subcommand.
CategorySubcommands ==
    [id \in {"K1", "K2"} |->
        IF id = "K1"
        THEN Set(Set(EmptyObject, S1.name, S1), S2.name, S2)
        ELSE Set(Set(EmptyObject, S3.name, S3), S4.name, S4)]

----------------------------------------------------------------------------
(* Interactions *)

NoSubcommand == "<none>"
CommandNames == {"ping", "constructor", "__proto__"}
SubcommandNames == {"ban", "kick", "constructor", "__proto__"}

Interaction(kind, commandName, subcommand) ==
    [kind |-> kind, commandName |-> commandName, subcommand |-> subcommand]

Interactions ==
    { Interaction("chatInput", n, s) :
        n \in CommandNames, s \in SubcommandNames \cup {NoSubcommand} }
    \cup { Interaction(k, n, NoSubcommand) :
        k \in {"userContextMenu", "messageContextMenu"}, n \in CommandNames }
    \cup { Interaction("other", "ping", NoSubcommand) }

NoInteraction == Interaction("none", "", NoSubcommand)

\* What the application's own code does when it is run: the handler of a
\* command or subcommand, and the error handler.
Outcome(handler, errorHandler) ==
    [handler |-> handler, errorHandler |-> errorHandler]
\* The error handler runs only after a handler has raised.
Outcomes ==
    {Outcome("ok", "ok"), Outcome("raise", "ok"), Outcome("raise", "raise")}

----------------------------------------------------------------------------
(* State *)

VARIABLES
    textInputCommands,          \* #textInputCommands
    userContextMenuCommands,    \* #userContextMenuCommands
    messageContextMenuCommands, \* #messageContextMenuCommands
    errorHandler,               \* #errorHandler: "undefined" or "set"
    listeners,                  \* the client's listeners, in subscription order
    subcommands,                \* CategoryCommand.subcommands, by category id
    last,                       \* the last operation, its input and what it did
    everRaised,                 \* a command handler has raised in some dispatch
    puts,                       \* the rest.put calls of the last refreshCommands
    refreshes,                  \* how many refreshCommands calls were made
    sinceAdd,                   \* how many of them since the last addModules
    emission,                   \* the last module event emitted and who ran
    subscribed,                 \* every event handler passed in by a module
    discovery,                  \* the Module.fromDirectory call in progress
    conversion,                 \* the last call made on a command object
    running                     \* the dispatches whose handler has not settled

vars == <<textInputCommands, userContextMenuCommands,
          messageContextMenuCommands, errorHandler, listeners, subcommands,
          last, everRaised, puts, refreshes, sinceAdd, emission, subscribed,
          discovery, conversion, running>>

\* One handler call: the handler's owner and the interaction it was given.
Call(id, interaction) == [handler |-> id, interaction |-> interaction]

\* console.warn texts
MissWarning(label, name) ==
    [text |-> "no handler", label |-> label, name |-> name]
OverrideWarning(label, name) ==
    [text |-> "Overriding", label |-> label, name |-> name]
SubcommandMissWarning(subcommand, category) ==
    [text |-> "no subcommand handler", label |-> category, name |-> subcommand]

GlimmerError(command, interaction) ==
    [command |-> command, interaction |-> interaction]

\* What one listener run did.
\*   found      the value the table lookup gave
\*   invoked    calls of command.handler
\*   delegated  calls of a subcommand's handler by a category
\*   warns      console.warn calls
\*   errors     calls of the error handler
\*   raised     command.handler(interaction) threw
\*   errorHandlerRaised  the error handler threw
\*   rejected   an exception left the listener
NoResult ==
    [found |-> Undefined, invoked |-> <<>>, delegated |-> <<>>,
     warns |-> <<>>, errors |-> <<>>, raised |-> FALSE,
     errorHandlerRaised |-> FALSE, rejected |-> FALSE]

Dispatcher == "Glimmer.interactionCreate"
ReadyLogger == "Glimmer.ready"

----------------------------------------------------------------------------
(* The client's event emitter *)

\* A variant that subscribes with `once`: the listener is dropped after its
\* first event.
ClientOnce(ls, event, handler) ==
    Append(ls, [event |-> event, handler |-> handler, once |-> TRUE])

\* A variant that subscribes with prependListener: the newest listener runs
\* first.
ClientPrependListener(ls, event, handler) ==
    <<[event |-> event, handler |-> handler, once |-> FALSE]>> \o ls

\* A variant that subscribes a handler to an event once only, however often
\* it is given.
ClientOnIfAbsent(ls, event, handler) ==
    IF \E i \in 1..Len(ls) : ls[i].event = event /\ ls[i].handler = handler
    THEN ls
    ELSE Append(ls, [event |-> event, handler |-> handler, once |-> FALSE])

\* this.#client.on(event, handler)
ClientOn(ls, event, handler) ==
    Append(ls, [event |-> event, handler |-> handler, once |-> FALSE])

\* The listeners left after `event` was emitted.
AfterEmit(ls, event) ==
    SelectSeq(ls, LAMBDA l : ~(l.event = event /\ l.once))

Subscribed(ls, event, handler) ==
    \E i \in 1..Len(ls) : ls[i].event = event /\ ls[i].handler = handler

----------------------------------------------------------------------------
(* CategoryCommand's synthesized handler *)

\* A variant that calls the looked-up handler without the undefined check.
categoryHandlerUnchecked(command, interaction, out) ==
    LET base == [NoResult EXCEPT !.invoked = <<Call(command.id, interaction)>>]
        subcommand == interaction.subcommand
        entry == IF subcommand = NoSubcommand THEN Undefined
                 ELSE Get(subcommands[command.id], subcommand)
    IN  IF entry.type # "command"
        THEN [base EXCEPT !.raised = TRUE]
        ELSE [base EXCEPT !.delegated = <<Call(entry.id, interaction)>>,
                          !.raised = (out.handler = "raise")]

\* A variant that looks the subcommand up under the command's name.
categoryHandlerByCommandName(command, interaction, out) ==
    LET base == [NoResult EXCEPT !.invoked = <<Call(command.id, interaction)>>]
        subcommand == interaction.subcommand
    IN  IF subcommand = NoSubcommand
        THEN [base EXCEPT !.raised = TRUE]
        ELSE LET entry == Get(subcommands[command.id], interaction.commandName)
             IN  IF entry.type # "command"
                 THEN [base EXCEPT !.warns =
                         <<SubcommandMissWarning(subcommand, command.name)>>]
                 ELSE [base EXCEPT
                         !.delegated = <<Call(entry.id, interaction)>>,
                         !.raised = (out.handler = "raise")]

\* A variant that calls the subcommand's handler without awaiting it.
categoryHandlerNotAwaited(command, interaction, out) ==
    LET base == [NoResult EXCEPT !.invoked = <<Call(command.id, interaction)>>]
        subcommand == interaction.subcommand
    IN  IF subcommand = NoSubcommand
        THEN [base EXCEPT !.raised = TRUE]
        ELSE LET entry == Get(subcommands[command.id], subcommand)
             IN  IF entry.type # "command"
                 THEN [base EXCEPT !.warns =
                         <<SubcommandMissWarning(subcommand, command.name)>>]
                 ELSE [base EXCEPT
                         !.delegated = <<Call(entry.id, interaction)>>]

\* A variant resolving the subcommand through the mapping the category was
\* constructed with, whatever the mapping holds when it is invoked.
categoryHandlerSnapshot(command, interaction, out) ==
    LET base == [NoResult EXCEPT !.invoked = <<Call(command.id, interaction)>>]
        subcommand == interaction.subcommand
    IN  IF subcommand = NoSubcommand
        THEN [base EXCEPT !.raised = TRUE]
        ELSE LET entry == Get(CategorySubcommands[command.id], subcommand)
             IN  IF entry.type # "command"
                 THEN [base EXCEPT !.warns =
                         <<SubcommandMissWarning(subcommand, command.name)>>]
                 ELSE [base EXCEPT
                         !.delegated = <<Call(entry.id, interaction)>>,
                         !.raised = (out.handler = "raise")]

\* The handler a CategoryCommand passes to super(): getSubcommand(true)
\* throws when the interaction selects no subcommand; a looked-up value
\* that is no SubCommand has no `handler`, so `?.handler` is undefined.
categoryHandler(command, interaction, out) ==
    LET base == [NoResult EXCEPT !.invoked = <<Call(command.id, interaction)>>]
        subcommand == interaction.subcommand
    IN  IF subcommand = NoSubcommand
        THEN [base EXCEPT !.raised = TRUE]
        ELSE LET entry == Get(subcommands[command.id], subcommand)
             IN  IF entry.type # "command"
                 THEN [base EXCEPT !.warns =
                         <<SubcommandMissWarning(subcommand, command.name)>>]
                 ELSE [base EXCEPT
                         !.delegated = <<Call(entry.id, interaction)>>,
                         !.raised = (out.handler = "raise")]

----------------------------------------------------------------------------
(* Glimmer.#handleCommand *)

\* command.handler(interaction): a value that is no command has no
\* `handler`, and calling undefined throws a TypeError.
callHandler(command, interaction, out) ==
    IF command.type # "command"
    THEN [NoResult EXCEPT !.raised = TRUE]
    ELSE IF command.kind = "CategoryCommand"
    THEN categoryHandler(command, interaction, out)
    ELSE [NoResult EXCEPT !.invoked = <<Call(command.id, interaction)>>,
                          !.raised = (out.handler = "raise")]

\* A variant without the try/catch: the handler's exception propagates.
handleCommandNoCatch(command, interaction, out) ==
    LET call == callHandler(command, interaction, out)
    IN  [call EXCEPT !.rejected = call.raised]

\* A variant that reports in a `finally`: the error handler is called
\* whether or not the handler raised.
handleCommandFinally(command, interaction, out) ==
    LET call == callHandler(command, interaction, out)
    IN  IF errorHandler = "undefined" THEN call
        ELSE [call EXCEPT
                !.errors = <<GlimmerError(command, interaction)>>,
                !.errorHandlerRaised = (out.errorHandler = "raise"),
                !.rejected = (out.errorHandler = "raise")]

\* A variant whose catch also takes what the error handler throws.
handleCommandCatchAll(command, interaction, out) ==
    LET call == callHandler(command, interaction, out)
    IN  IF ~call.raised THEN call
        ELSE IF errorHandler = "undefined" THEN call
        ELSE [call EXCEPT
                !.errors = <<GlimmerError(command, interaction)>>,
                !.errorHandlerRaised = (out.errorHandler = "raise")]

\* #handleCommand: the error handler is called inside the catch block, so
\* what it throws rejects the promise of #handleCommand and of the listener.
handleCommand(command, interaction, out) ==
    LET call == callHandler(command, interaction, out)
    IN  IF ~call.raised THEN call
        ELSE IF errorHandler = "undefined" THEN call
        ELSE [call EXCEPT
                !.errors = <<GlimmerError(command, interaction)>>,
                !.errorHandlerRaised = (out.errorHandler = "raise"),
                !.rejected = (out.errorHandler = "raise")]

----------------------------------------------------------------------------
(* The interactionCreate listener *)

lookupAndHandle(table, label, interaction, out) ==
    LET command == Get(table, interaction.commandName)
    IN  IF command = Undefined
        THEN [NoResult EXCEPT
                !.warns = <<MissWarning(label, interaction.commandName)>>]
        ELSE [handleCommand(command, interaction, out) EXCEPT
                !.found = command]

\* A variant whose user-context-menu branch reads the message table.
interactionCreateWrongTable(interaction, out) ==
    IF interaction.kind = "chatInput"
    THEN lookupAndHandle(textInputCommands, "chat input", interaction, out)
    ELSE IF interaction.kind = "userContextMenu"
    THEN lookupAndHandle(messageContextMenuCommands, "user context menu",
                         interaction, out)
    ELSE IF interaction.kind = "messageContextMenu"
    THEN lookupAndHandle(messageContextMenuCommands, "message context menu",
                         interaction, out)
    ELSE NoResult

\* A variant that serves no command before the commands were published.
interactionCreateOncePublished(interaction, out) ==
    IF interaction.kind \notin
         {"chatInput", "userContextMenu", "messageContextMenu"}
    THEN NoResult
    ELSE IF refreshes = 0
    THEN lookupAndHandle(EmptyObject, "unpublished", interaction, out)
    ELSE IF interaction.kind = "chatInput"
    THEN lookupAndHandle(textInputCommands, "chat input", interaction, out)
    ELSE IF interaction.kind = "userContextMenu"
    THEN lookupAndHandle(userContextMenuCommands, "user context menu",
                         interaction, out)
    ELSE lookupAndHandle(messageContextMenuCommands, "message context menu",
                         interaction, out)

interactionCreate(interaction, out) ==
    IF interaction.kind = "chatInput"
    THEN lookupAndHandle(textInputCommands, "chat input", interaction, out)
    ELSE IF interaction.kind = "userContextMenu"
    THEN lookupAndHandle(userContextMenuCommands, "user context menu",
                         interaction, out)
    ELSE IF interaction.kind = "messageContextMenu"
    THEN lookupAndHandle(messageContextMenuCommands, "message context menu",
                         interaction, out)
    ELSE NoResult

----------------------------------------------------------------------------
(* The listener as the asynchronous function it is *)

\* Most dispatches begun in one run.
MaxRunning == 2

\* One run of the listener: the interaction, what the run did before its
\* first suspension (the value looked up, the handler calls made, the
\* warnings), the dispatches that were suspended when it began, whether it
\* has completed and, once it has, all it did.
Dispatch(interaction, begun, overlapped, settled, result) ==
    [interaction |-> interaction, found |-> begun.found,
     invoked |-> begun.invoked, delegated |-> begun.delegated,
     warns |-> begun.warns, overlapped |-> overlapped, settled |-> settled,
     result |-> result]

Suspended(rs) == {i \in 1..Len(rs) : ~rs[i].settled}

\* A variant that begins no dispatch while an earlier one is suspended.
receiveSerialized(rs, interaction, out) ==
    LET begun == interactionCreate(interaction,
                                   Outcome("ok", out.errorHandler))
    IN  IF Suspended(rs) # {}
        THEN Append(rs, Dispatch(interaction, NoResult, Suspended(rs), FALSE,
                                 NoResult))
        ELSE IF begun.invoked = <<>>
        THEN Append(rs, Dispatch(interaction, begun, Suspended(rs), TRUE,
                                 begun))
        ELSE Append(rs, Dispatch(interaction, begun, Suspended(rs), FALSE,
                                 NoResult))

\* The client emits interactionCreate and the listener runs up to its first
\* suspension: it looks the command up and, inside #handleCommand, calls
\* command.handler(interaction), whose promise it awaits.  A run that
\* called no handler (a miss, or a value without a handler, whose
\* TypeError the catch block takes at once) has completed.
receive(rs, interaction, out) ==
    LET begun == interactionCreate(interaction,
                                   Outcome("ok", out.errorHandler))
    IN  IF begun.invoked = <<>>
        THEN Append(rs, Dispatch(interaction, begun, Suspended(rs), TRUE,
                                 begun))
        ELSE Append(rs, Dispatch(interaction, begun, Suspended(rs), FALSE,
                                 NoResult))

\* The promise of the handler of dispatch i settles and #handleCommand goes
\* on after its await: the catch block runs when the promise rejected.
settle(rs, i, out) ==
    [rs EXCEPT
        ![i].settled = TRUE,
        ![i].result = [handleCommand(rs[i].found, rs[i].interaction, out)
                          EXCEPT !.found = rs[i].found]]

----------------------------------------------------------------------------
(* Glimmer.addModules *)

\* The registry while addModules runs: the three tables, the client's
\* listeners and the console.warn calls so far.
Registry(text, user, message, ls, warns) ==
    [text |-> text, user |-> user, message |-> message,
     listeners |-> ls, warns |-> warns]

overrideWarning(table, label, name) ==
    IF Has(table, name) THEN <<OverrideWarning(label, name)>> ELSE <<>>

\* A variant that keeps the command already registered under the name.
addCommandKeepFirst(reg, command) ==
    LET keep(table) ==
            IF Has(table, command.name) THEN table
            ELSE Set(table, command.name, command)
    IN  IF command.kind \in {"NormalCommand", "CategoryCommand"}
        THEN [reg EXCEPT
                !.warns = reg.warns \o
                    overrideWarning(reg.text, "text input", command.name),
                !.text = keep(reg.text)]
        ELSE IF command.kind = "MessageContextMenuCommand"
        THEN [reg EXCEPT
                !.warns = reg.warns \o
                    overrideWarning(reg.message, "message context menu",
                                    command.name),
                !.message = keep(reg.message)]
        ELSE IF command.kind = "UserContextMenuCommand"
        THEN [reg EXCEPT
                !.warns = reg.warns \o
                    overrideWarning(reg.user, "message context menu",
                                    command.name),
                !.user = keep(reg.user)]
        ELSE reg

\* A variant that starts the table afresh with each command it registers.
addCommandFreshTable(reg, command) ==
    LET fresh == Set(EmptyObject, command.name, command)
    IN  IF command.kind \in {"NormalCommand", "CategoryCommand"}
        THEN [reg EXCEPT
                !.warns = reg.warns \o
                    overrideWarning(reg.text, "text input", command.name),
                !.text = fresh]
        ELSE IF command.kind = "MessageContextMenuCommand"
        THEN [reg EXCEPT
                !.warns = reg.warns \o
                    overrideWarning(reg.message, "message context menu",
                                    command.name),
                !.message = fresh]
        ELSE IF command.kind = "UserContextMenuCommand"
        THEN [reg EXCEPT
                !.warns = reg.warns \o
                    overrideWarning(reg.user, "message context menu",
                                    command.name),
                !.user = fresh]
        ELSE reg

\* A variant that stamps the command it registers, changing its name.
addCommandRenaming(reg, command) ==
    LET stamped == [command EXCEPT !.name = "registered"]
    IN  IF command.kind \in {"NormalCommand", "CategoryCommand"}
        THEN [reg EXCEPT !.text = Set(reg.text, command.name, stamped)]
        ELSE IF command.kind = "MessageContextMenuCommand"
        THEN [reg EXCEPT !.message = Set(reg.message, command.name, stamped)]
        ELSE IF command.kind = "UserContextMenuCommand"
        THEN [reg EXCEPT !.user = Set(reg.user, command.name, stamped)]
        ELSE reg

\* A variant whose UserContextMenuCommand branch writes the message table.
addCommandWrongTable(reg, command) ==
    IF command.kind \in {"NormalCommand", "CategoryCommand"}
    THEN [reg EXCEPT
            !.warns = reg.warns \o
                overrideWarning(reg.text, "text input", command.name),
            !.text = Set(reg.text, command.name, command)]
    ELSE IF command.kind = "MessageContextMenuCommand"
    THEN [reg EXCEPT
            !.warns = reg.warns \o
                overrideWarning(reg.message, "message context menu",
                                command.name),
            !.message = Set(reg.message, command.name, command)]
    ELSE IF command.kind = "UserContextMenuCommand"
    THEN [reg EXCEPT
            !.warns = reg.warns \o
                overrideWarning(reg.message, "message context menu",
                                command.name),
            !.message = Set(reg.message, command.name, command)]
    ELSE reg

\* A variant that registers a command of any other class as a text-input
\* command.
addCommandRegisteringAny(reg, command) ==
    IF command.kind = "MessageContextMenuCommand"
    THEN [reg EXCEPT
            !.warns = reg.warns \o
                overrideWarning(reg.message, "message context menu",
                                command.name),
            !.message = Set(reg.message, command.name, command)]
    ELSE IF command.kind = "UserContextMenuCommand"
    THEN [reg EXCEPT
            !.warns = reg.warns \o
                overrideWarning(reg.user, "message context menu",
                                command.name),
            !.user = Set(reg.user, command.name, command)]
    ELSE [reg EXCEPT
            !.warns = reg.warns \o
                overrideWarning(reg.text, "text input", command.name),
            !.text = Set(reg.text, command.name, command)]

\* The body of the loop over module.commands.  The user-context-menu
\* branch warns with the words "message context menu", as the source does.
addCommand(reg, command) ==
    IF command.kind \in {"NormalCommand", "CategoryCommand"}
    THEN [reg EXCEPT
            !.warns = reg.warns \o
                overrideWarning(reg.text, "text input", command.name),
            !.text = Set(reg.text, command.name, command)]
    ELSE IF command.kind = "MessageContextMenuCommand"
    THEN [reg EXCEPT
            !.warns = reg.warns \o
                overrideWarning(reg.message, "message context menu",
                                command.name),
            !.message = Set(reg.message, command.name, command)]
    ELSE IF command.kind = "UserContextMenuCommand"
    THEN [reg EXCEPT
            !.warns = reg.warns \o
                overrideWarning(reg.user, "message context menu",
                                command.name),
            !.user = Set(reg.user, command.name, command)]
    ELSE reg

RECURSIVE addCommands(_, _)
addCommands(reg, commands) ==
    IF commands = <<>> THEN reg
    ELSE addCommands(addCommand(reg, Head(commands)), Tail(commands))

RECURSIVE addEvents(_, _)
addEvents(reg, events) ==
    IF events = <<>> THEN reg
    ELSE addEvents(
            [reg EXCEPT !.listeners =
                ClientOn(reg.listeners, Head(events).eventType,
                         Head(events).id)],
            Tail(events))

RECURSIVE addModules(_, _)
addModules(reg, modules) ==
    IF modules = <<>> THEN reg
    ELSE addModules(
            addEvents(addCommands(reg, Head(modules).commands),
                      Head(modules).events),
            Tail(modules))

----------------------------------------------------------------------------
(* Events of the modules *)

RECURSIVE emit(_, _)
\* The client emits `event`: the handlers subscribed to it run in
\* subscription order.
emit(ls, event) ==
    IF ls = <<>> THEN <<>>
    ELSE (IF Head(ls).event = event THEN <<Head(ls).handler>> ELSE <<>>)
         \o emit(Tail(ls), event)

ModuleEvents == {"ready", "messageCreate"}
Emission(event, ran) == [event |-> event, ran |-> ran]
NoEmission == Emission("<none>", <<>>)

----------------------------------------------------------------------------
(* Publishing: toDiscord and refreshCommands *)

\* The order in which the own keys of an object are enumerated.  JavaScript
\* enumerates string keys in insertion order; the model keeps no insertion
\* order and fixes one order for every object.
KeyOrder == <<"ping", "constructor", "ban", "kick", "__proto__">>

\* Object.values(object): the values of the own properties only.
ObjectValues(object) ==
    LET keys == SelectSeq(KeyOrder, LAMBDA k : object.own[k] # Undefined)
    IN  [i \in 1..Len(keys) |-> object.own[keys[i]]]

\* A builder as toDiscord returns it: its class, the application command
\* type it was given, its name, the command that built it and the
\* subcommand builders added to it.
Declaration(builder, type, command, subs) ==
    [builder |-> builder, type |-> type, name |-> command.name,
     command |-> command.id, subcommands |-> subs]

\* SubCommand.toDiscord()
subCommandToDiscord(command) ==
    Declaration("SlashCommandSubcommandBuilder", "Subcommand", command, <<>>)

\* command.toDiscord(); `mapping` is command.subcommands of a category.
toDiscord(command, mapping) ==
    IF command.kind = "NormalCommand"
    THEN Declaration("SlashCommandBuilder", "ChatInput", command, <<>>)
    ELSE IF command.kind = "CategoryCommand"
    THEN LET subs == ObjectValues(mapping)
         IN  Declaration("SlashCommandBuilder", "ChatInput", command,
                         [i \in 1..Len(subs) |-> subCommandToDiscord(subs[i])])
    ELSE IF command.kind = "SubCommand"
    THEN subCommandToDiscord(command)
    \* Both context menu classes call setType(ApplicationCommandType.Message).
    ELSE Declaration("ContextMenuCommandBuilder", "Message", command, <<>>)

\* Object.values(commands).map((command) => command.toDiscord())
tableToDiscord(table) ==
    LET commands == ObjectValues(table)
    IN  [i \in 1..Len(commands) |->
            toDiscord(commands[i],
                      IF commands[i].kind = "CategoryCommand"
                      THEN subcommands[commands[i].id] ELSE EmptyObject)]

\* A variant that submits only what the previous call did not.
refreshBodyOnlyNew(text, user, message) ==
    LET all == tableToDiscord(text) \o tableToDiscord(user)
               \o tableToDiscord(message)
    IN  SelectSeq(all, LAMBDA d :
            \A i \in 1..Len(puts) :
                \A j \in 1..Len(puts[i].body) : puts[i].body[j] # d)

\* The body of the request: the three tables, flat-mapped.
refreshBody(text, user, message) ==
    tableToDiscord(text) \o tableToDiscord(user) \o tableToDiscord(message)

\* rest.put(Routes.applicationCommands(applicationId), { body })
Put(body) == [route |-> "applicationCommands", body |-> body]

----------------------------------------------------------------------------
(* Discovery: the directory tree Module.fromDirectory reads *)

\* path.parse(file), for the file names of the model: the name is the base
\* name up to its last dot, the extension the rest.
ParsedPath(name, ext) == [name |-> name, ext |-> ext]
PathParse(file) ==
    CASE file = "ping.js" -> ParsedPath("ping", ".js")
      [] file = "constructor.js" -> ParsedPath("constructor", ".js")
      [] file = "ban.js" -> ParsedPath("ban", ".js")
      [] file = "ban.mjs" -> ParsedPath("ban", ".mjs")
      [] file = "kick.js" -> ParsedPath("kick", ".js")
      [] file = "__proto__.js" -> ParsedPath("__proto__", ".js")
      [] file = "ready.js" -> ParsedPath("ready", ".js")
      [] file = "notes.txt" -> ParsedPath("notes", ".txt")
      [] file = "ping" -> ParsedPath("ping", "")
      [] file = "constructor" -> ParsedPath("constructor", "")

\* file.endsWith(".js")
EndsWithJs(file) == PathParse(file).ext = ".js"

\* A path is the sequence of its segments below the module's directory;
\* path.join(dir, file) appends one.
PathJoin(dir, file) == Append(dir, file)
PathDir(path) == SubSeq(path, 1, Len(path) - 1)
PathBase(path) == path[Len(path)]

TextInput == <<"commands/text-input">>
MessageMenu == <<"commands/message-menu">>
UserMenu == <<"commands/user-menu">>
Events == <<"events">>

\* What import(file) gives as the default export: a command or an event
\* handler as its author constructed it, some other value, or no module at
\* all (the import fails: a directory, a file that is no ES module).
Other == [type |-> "other"]
Unloadable == [type |-> "unloadable"]
IsCommand(value) == "kind" \in DOMAIN value
IsEventHandler(value) == "eventType" \in DOMAIN value

\* The name a command has when its file is imported: "" as the Command
\* class initialises it, or one its author assigned.
AuthoredName(id) == IF id \in {"T1", "S2"} THEN "pong" ELSE ""
Authored(command) == [command EXCEPT !.name = AuthoredName(command.id)]

File(file, export) == [file |-> file, export |-> export]
Dir(entries) == [exists |-> TRUE, entries |-> entries]
NoDir == [exists |-> FALSE, entries |-> <<>>]

\* A module directory: its four directories and the subdirectory `sub` of
\* commands/text-input named `subname`.
Tree(text, message, user, events, subname, sub) ==
    [p \in {TextInput, MessageMenu, UserMenu, Events,
            PathJoin(TextInput, subname)} |->
        IF p = TextInput THEN text
        ELSE IF p = MessageMenu THEN message
        ELSE IF p = UserMenu THEN user
        ELSE IF p = Events THEN events
        ELSE sub]

PingJs(value) ==
    File("ping.js", IF IsCommand(value) THEN Authored(value) ELSE value)
CategoryPing(sub) ==
    Tree(Dir(<<File("ping", Unloadable), PingJs(K1)>>), Dir(<<>>),
         Dir(<<PingJs(U2)>>), Dir(<<>>), "ping", sub)

\* The directories discovery is run on.
Trees ==
    [plain |->
        Tree(Dir(<<PingJs(T1), File("notes.txt", Unloadable)>>),
             Dir(<<PingJs(G1)>>), Dir(<<PingJs(U1)>>),
             Dir(<<File("ready.js", E1), File("notes.txt", Unloadable)>>),
             "ping", NoDir),
     category |->
        CategoryPing(Dir(<<File("ban.js", Authored(S1)),
                           File("kick.js", Authored(S2))>>)),
     sameBase |->
        CategoryPing(Dir(<<File("ban.js", Authored(S1)),
                           File("ban.mjs", Authored(S3))>>)),
     protoFile |->
        Tree(Dir(<<File("constructor.js", Authored(K2))>>), Dir(<<>>),
             Dir(<<>>), Dir(<<>>), "constructor",
             Dir(<<File("ban.js", Authored(S3)),
                   File("__proto__.js", Authored(S4))>>)),
     topLevelSub |->
        Tree(Dir(<<PingJs(S0)>>), Dir(<<>>), Dir(<<PingJs(U1)>>), Dir(<<>>),
             "ping", NoDir),
     notACommand |->
        Tree(Dir(<<PingJs(Other)>>), Dir(<<>>), Dir(<<PingJs(U1)>>),
             Dir(<<File("ready.js", E1)>>), "ping", NoDir),
     twoBad |->
        Tree(Dir(<<PingJs(E1)>>), Dir(<<PingJs(Other)>>), Dir(<<PingJs(U1)>>),
             Dir(<<>>), "ping", NoDir),
     notASubCommand |->
        CategoryPing(Dir(<<File("ban.js", Authored(S1)),
                           File("kick.js", Authored(T2))>>)),
     subNotACommand |->
        CategoryPing(Dir(<<File("kick.js", Other),
                           File("ban.js", Authored(S1))>>)),
     subNotAModule |->
        CategoryPing(Dir(<<File("ban.js", Authored(S1)),
                           File("notes.txt", Unloadable)>>)),
     subIsACategory |->
        CategoryPing(Dir(<<File("ban.js", Authored(K2))>>)),
     noSubdirectory |-> CategoryPing(NoDir),
     wrongEvent |->
        Tree(Dir(<<PingJs(T1)>>), Dir(<<>>), Dir(<<>>),
             Dir(<<File("ready.js", E3)>>), "ping", NoDir),
     notACommandWrongEvent |->
        Tree(Dir(<<PingJs(Other)>>), Dir(<<>>), Dir(<<>>),
             Dir(<<File("ready.js", E3)>>), "ping", NoDir),
     notAnEventHandler |->
        Tree(Dir(<<PingJs(T1)>>), Dir(<<>>), Dir(<<>>),
             Dir(<<File("ready.js", Authored(T2))>>), "ping", NoDir),
     noEvents |->
        Tree(Dir(<<PingJs(T1)>>), Dir(<<>>), Dir(<<PingJs(U1)>>), NoDir,
             "ping", NoDir),
     noTextInput |->
        Tree(NoDir, Dir(<<PingJs(G1)>>), Dir(<<PingJs(U1)>>),
             Dir(<<File("ready.js", E1)>>), "ping", NoDir),
     noMessageMenu |->
        Tree(Dir(<<PingJs(T1)>>), NoDir, Dir(<<PingJs(U1)>>),
             Dir(<<File("ready.js", E1)>>), "ping", NoDir),
     noUserMenu |->
        Tree(Dir(<<PingJs(T1)>>), Dir(<<PingJs(G1)>>), NoDir,
             Dir(<<File("ready.js", E1)>>), "ping", NoDir)]

TreeNames == DOMAIN Trees

\* readdir(path) and import(file) on a tree
readdir(tree, path) == IF path \in DOMAIN tree THEN tree[path] ELSE NoDir
import(tree, file) ==
    LET entries == readdir(tree, PathDir(file)).entries
        hits == {i \in 1..Len(entries) : entries[i].file = PathBase(file)}
    IN  IF hits = {} THEN Unloadable ELSE entries[CHOOSE i \in hits : TRUE].export

----------------------------------------------------------------------------
(* Discovery: Module.fromDirectory *)

\* An error: its class, its message (the text, the file it names and the
\* other values it names) and its cause (the message of the error it was
\* made from).
Message(text, file, names) == [text |-> text, file |-> file, names |-> names]
Error(class, message, cause) ==
    [class |-> class, message |-> message, cause |-> cause]
NoCause == Message("<none>", <<>>, <<>>)
NoError == Error("<none>", Message("", <<>>, <<>>), NoCause)

\* A variant whose message does not name the file.
wrongExportMessageNoFile(file, requiredType) ==
    Message("doesn't default-export an instance of", <<>>, <<requiredType>>)

wrongExportMessage(file, requiredType) ==
    Message("doesn't default-export an instance of", file, <<requiredType>>)

\* What readdir and import reject with.
ReaddirError(path) == Error("Error", Message("ENOENT", path, <<>>), NoCause)
ImportError(file) ==
    Error("Error", Message("Cannot load module", file, <<>>), NoCause)

\* A variant that drops the error readdir rejected with.
subcommandsUnreadableNoCause(dirname, error) ==
    Error("TypeError", Message("Couldn't read subcommands", dirname, <<>>),
          NoCause)

\* new TypeError(`Couldn't read subcommands in "${dirname}": ${error}`,
\*               { cause: error })
subcommandsUnreadable(dirname, error) ==
    Error("TypeError", Message("Couldn't read subcommands", dirname, <<>>),
          error.message)

\* An asynchronous operation in flight: a readdir or an import, made for
\* the commands or the events, on behalf of the category `owner` when it is
\* made for a category's subdirectory.
NoOwner == "<none>"
Task(op, path, role, owner) ==
    [op |-> op, path |-> path, role |-> role, owner |-> owner]

\* The promise fromDirectory returned.
Pending == [type |-> "pending", error |-> NoError, module |-> Module(<<>>, <<>>)]
Rejected(error) == [Pending EXCEPT !.type = "rejected", !.error = error]
Resolved(module) == [Pending EXCEPT !.type = "module", !.module = module]

CategoryIds == {"K1", "K2"}
CommandIds ==
    {"T1", "T2", "T3", "K1", "K2", "P2", "U1", "U2", "U3", "G1", "G2", "G3",
     "S0", "S1", "S2", "S3", "S4"}

\* The own keys of an object in the order of their creation, after
\* `object[key] = value`: a key the object has keeps its place, and
\* __proto__ creates none.
InsertedKey(keys, key) ==
    IF key = "__proto__" \/ \E i \in 1..Len(keys) : keys[i] = key THEN keys
    ELSE Append(keys, key)

\* Object.values(object) of an object whose own keys were created in the
\* order `keys`, none of them an integer index: the values in that order.
ObjectValuesInserted(object, keys) ==
    [i \in 1..Len(keys) |-> object.own[keys[i]]]

\* No call was made yet.
\*   names     the name of each command object
\*   mapping   command.subcommands of each category
\*   inserted  the own keys of each mapping, in the order of their creation
NoDiscovery ==
    [tree |-> "<none>", phase |-> "idle", pending |-> {},
     names |-> [id \in CommandIds |-> ""],
     mapping |-> [id \in CategoryIds |-> EmptyObject],
     inserted |-> [id \in CategoryIds |-> <<>>],
     thrown |-> {}, outcome |-> Pending]

\* The call starts: the three command directories are read concurrently.
start(tree) ==
    [NoDiscovery EXCEPT
        !.tree = tree,
        !.phase = "commands",
        !.names = [id \in CommandIds |-> AuthoredName(id)],
        !.pending = {Task("readdir", p, "command", NoOwner) :
                        p \in {TextInput, MessageMenu, UserMenu}}]

\* A variant that skips what it cannot use instead of failing.
throwSkipping(d, error) == d

\* An operation throws: the promise of fromDirectory rejects with the first
\* error thrown; the operations still in flight go on.
throw(d, error) ==
    [d EXCEPT
        !.thrown = @ \cup {error},
        !.outcome = IF @.type = "pending" THEN Rejected(error) ELSE @]

\* The imports started for the entries of a directory that was read.
imports(path, entries, role, owner) ==
    {Task("import", PathJoin(path, entries[i].file), role, owner) :
        i \in 1..Len(entries)}

JsFiles(entries) == SelectSeq(entries, LAMBDA e : EndsWithJs(e.file))

\* A variant that keeps the name the author gave, when there is one.
commandNameKeepAuthored(file, name) ==
    IF name # "" THEN name ELSE PathParse(PathBase(file)).name

\* command.name = path.parse(file).name
commandName(file, name) == PathParse(PathBase(file)).name

\* A variant that filters the entries of a category's subdirectory by the
\* .js extension too.
readdirCompletesFiltering(d, task) ==
    LET dir == readdir(Trees[d.tree], task.path)
        named == [d EXCEPT !.pending = @ \ {task}]
    IN  IF ~dir.exists
        THEN throw(named,
                   IF task.owner = NoOwner THEN ReaddirError(task.path)
                   ELSE subcommandsUnreadable(task.path,
                                              ReaddirError(task.path)))
        ELSE [named EXCEPT
                !.pending = @ \cup
                    imports(task.path, JsFiles(dir.entries),
                            task.role, task.owner)]

\* A variant that takes a directory it cannot read for an empty one.
readdirCompletesMissingAsEmpty(d, task) ==
    LET dir == readdir(Trees[d.tree], task.path)
        named == [d EXCEPT !.pending = @ \ {task}]
    IN  [named EXCEPT
            !.pending = @ \cup
                imports(task.path,
                        IF task.owner = NoOwner THEN JsFiles(dir.entries)
                        ELSE dir.entries,
                        task.role, task.owner)]

\* readdir completes: the entries of a command directory or of the events
\* directory are filtered by the .js extension, those of a category's
\* subdirectory are not.
readdirCompletes(d, task) ==
    LET dir == readdir(Trees[d.tree], task.path)
        named == [d EXCEPT !.pending = @ \ {task}]
    IN  IF ~dir.exists
        THEN throw(named,
                   IF task.owner = NoOwner THEN ReaddirError(task.path)
                   ELSE subcommandsUnreadable(task.path,
                                              ReaddirError(task.path)))
        ELSE [named EXCEPT
                !.pending = @ \cup
                    imports(task.path,
                            IF task.owner = NoOwner THEN JsFiles(dir.entries)
                            ELSE dir.entries,
                            task.role, task.owner)]

\* fileToCommand(file), from the completion of its import.
fileToCommand(d, task) ==
    LET command == import(Trees[d.tree], task.path)
        done == [d EXCEPT !.pending = @ \ {task}]
    IN  IF command = Unloadable THEN throw(done, ImportError(task.path))
        ELSE IF ~IsCommand(command)
        THEN throw(done, Error("TypeError",
                               wrongExportMessage(task.path, "Command"),
                               NoCause))
        ELSE LET name == commandName(task.path, d.names[command.id])
                 named == [done EXCEPT !.names[command.id] = name]
             IN  IF command.kind = "CategoryCommand"
                 THEN [named EXCEPT
                         !.pending = @ \cup
                             {Task("readdir",
                                   PathJoin(PathDir(task.path), name),
                                   "command", command.id)}]
                 ELSE IF task.owner = NoOwner THEN named
                 ELSE IF command.kind = "SubCommand"
                 THEN [named EXCEPT
                         !.mapping[task.owner] =
                             Set(@, name, [command EXCEPT !.name = name]),
                         !.inserted[task.owner] = InsertedKey(@, name)]
                 ELSE throw(named,
                            Error("Error",
                                  wrongExportMessage(task.path, "SubCommand"),
                                  NoCause))

\* A variant that does not compare the event type with the file name.
fileToEventHandlerUnchecked(d, task) ==
    LET handler == import(Trees[d.tree], task.path)
        done == [d EXCEPT !.pending = @ \ {task}]
    IN  IF handler = Unloadable THEN throw(done, ImportError(task.path))
        ELSE IF ~IsEventHandler(handler)
        THEN throw(done, Error("TypeError",
                               wrongExportMessage(task.path, "EventHandler"),
                               NoCause))
        ELSE done

\* fileToEventHandler(file), from the completion of its import.
fileToEventHandler(d, task) ==
    LET handler == import(Trees[d.tree], task.path)
        fileName == PathParse(PathBase(task.path)).name
        done == [d EXCEPT !.pending = @ \ {task}]
    IN  IF handler = Unloadable THEN throw(done, ImportError(task.path))
        ELSE IF ~IsEventHandler(handler)
        THEN throw(done, Error("TypeError",
                               wrongExportMessage(task.path, "EventHandler"),
                               NoCause))
        ELSE IF handler.eventType # fileName
        THEN throw(done, Error("TypeError",
                               Message("handles another event", task.path,
                                       <<handler.eventType, fileName>>),
                               NoCause))
        ELSE done

\* The commands one command directory gave, in the order of its listing.
commandsFrom(d, path) ==
    LET files == SelectSeq(JsFiles(readdir(Trees[d.tree], path).entries),
                           LAMBDA e : IsCommand(e.export))
    IN  [i \in 1..Len(files) |->
            [files[i].export EXCEPT !.name = d.names[files[i].export.id]]]

eventsFrom(d) ==
    SelectSeq(JsFiles(readdir(Trees[d.tree], Events).entries),
              LAMBDA e : IsEventHandler(e.export))

\* new Module(commands, events)
newModule(d) ==
    Module(commandsFrom(d, TextInput) \o commandsFrom(d, MessageMenu)
               \o commandsFrom(d, UserMenu),
           LET files == eventsFrom(d)
           IN  [i \in 1..Len(files) |-> files[i].export])

\* A variant that waits for the files of the command directories only, not
\* for the subcommand files of their categories.
awaitedTopLevelOnly(d) ==
    IF d.outcome.type # "pending" THEN d
    ELSE IF d.phase = "commands"
    THEN IF \E t \in d.pending : t.owner = NoOwner /\ t.role = "command"
         THEN d
         ELSE [d EXCEPT !.phase = "events",
                        !.pending = @ \cup
                            {Task("readdir", Events, "event", NoOwner)}]
    ELSE IF \E t \in d.pending : t.role = "event" THEN d
    ELSE [d EXCEPT !.phase = "returned", !.outcome = Resolved(newModule(d))]

\* fromDirectory goes on after an await: when every command has been
\* loaded it reads the events directory, and when every event handler has
\* been loaded it returns the Module.
awaited(d) ==
    IF d.outcome.type # "pending" \/ d.pending # {} THEN d
    ELSE IF d.phase = "commands"
    THEN [d EXCEPT !.phase = "events",
                   !.pending = {Task("readdir", Events, "event", NoOwner)}]
    ELSE [d EXCEPT !.phase = "returned", !.outcome = Resolved(newModule(d))]

----------------------------------------------------------------------------
(* The command classes: construction, conversion between classes, toDiscord *)

\* Most options one command is constructed with.
MaxOptions == 2
\* Most toDiscord calls made on one command.
MaxConversions == 2

Null == [type |-> "null"]
Number(n) == [type |-> "number", value |-> n]
BigInt(n) == [type |-> "bigint", value |-> n]
Array(items) == [type |-> "array", items |-> items]
LocalizationMap(text) == [type |-> "LocalizationMap", ptBR |-> text]

\* `value != undefined`
Defined(value) == value # Undefined /\ value # Null
\* `value ?? default`
Coalesce(value, default) == IF Defined(value) THEN value ELSE default

\* The classes of the CommandOption union, by the platform option kind of
\* each, and a class outside the union.
OptionClass ==
    [Boolean |-> "SlashCommandBooleanOption",
     User |-> "SlashCommandUserOption",
     Channel |-> "SlashCommandChannelOption",
     Role |-> "SlashCommandRoleOption",
     Attachment |-> "SlashCommandAttachmentOption",
     Mentionable |-> "SlashCommandMentionableOption",
     String |-> "SlashCommandStringOption",
     Integer |-> "SlashCommandIntegerOption",
     Number |-> "SlashCommandNumberOption"]
OptionKinds == DOMAIN OptionClass
CommandOption == {OptionClass[k] : k \in OptionKinds}
NotACommandOption == "SlashCommandSubcommandBuilder"
Option(class) == [type |-> "option", class |-> class]

\* The construction parameters of the command classes; a property left out
\* is undefined.
ConstructionOptions(description, handler, options, nameLocalizations, descriptionLocalizations, memberPermissions) ==
    [description |-> description, handler |-> handler, options |-> options,
     nameLocalizations |-> nameLocalizations,
     descriptionLocalizations |-> descriptionLocalizations,
     memberPermissions |-> memberPermissions]

\* Command's constructor and field initialisers
CommandConstructor(options) ==
    [name |-> "", handler |-> options.handler,
     nameLocalizations |->
        IF Defined(options.nameLocalizations) THEN options.nameLocalizations
        ELSE Undefined]

\* new NormalCommand(options)
NormalCommand(options) ==
    LET super == CommandConstructor(options)
    IN  [class |-> "NormalCommand", name |-> super.name,
         handler |-> super.handler,
         nameLocalizations |-> super.nameLocalizations,
         description |-> options.description,
         descriptionLocalizations |->
            IF Defined(options.descriptionLocalizations)
            THEN options.descriptionLocalizations ELSE Undefined,
         memberPermissions |-> Coalesce(options.memberPermissions, Number(0)),
         options |-> Coalesce(options.options, Array(<<>>))]

\* new SubCommand(options)
SubCommand(options) ==
    LET super == CommandConstructor(options)
    IN  [class |-> "SubCommand", name |-> super.name,
         handler |-> super.handler,
         nameLocalizations |-> super.nameLocalizations,
         description |-> options.description,
         descriptionLocalizations |->
            IF Defined(options.descriptionLocalizations)
            THEN options.descriptionLocalizations ELSE Undefined,
         options |-> Coalesce(options.options, Array(<<>>))]

\* new CategoryCommand(options); the handler is the one the constructor
\* generates.
CategoryCommand(options) ==
    LET super == CommandConstructor([options EXCEPT !.handler = "category"])
    IN  [class |-> "CategoryCommand", name |-> super.name,
         handler |-> super.handler,
         nameLocalizations |-> super.nameLocalizations,
         description |-> options.description,
         descriptionLocalizations |->
            IF Defined(options.descriptionLocalizations)
            THEN options.descriptionLocalizations ELSE Undefined,
         memberPermissions |-> Coalesce(options.memberPermissions, Number(0)),
         subcommands |-> EmptyObject]

\* new UserContextMenuCommand(options)
UserContextMenuCommand(options) ==
    LET super == CommandConstructor(options)
    IN  [class |-> "UserContextMenuCommand", name |-> super.name,
         handler |-> super.handler,
         nameLocalizations |-> super.nameLocalizations,
         memberPermissions |-> Coalesce(options.memberPermissions, Number(0))]

\* new MessageContextMenuCommand(options)
MessageContextMenuCommand(options) ==
    LET super == CommandConstructor(options)
    IN  [class |-> "MessageContextMenuCommand", name |-> super.name,
         handler |-> super.handler,
         nameLocalizations |-> super.nameLocalizations,
         memberPermissions |-> Coalesce(options.memberPermissions, Number(0))]

\* What a method call did: the object it was called on, as the call left
\* it, and the value it returned or the error it threw.
Returns(this, value) == [this |-> this, returned |-> value, thrown |-> NoError]
Throws(this, error) == [this |-> this, returned |-> Undefined, thrown |-> error]

\* NormalCommand.toSubCommand()
NormalCommand_toSubCommand(this) ==
    LET parameters ==
            ConstructionOptions(
                this.description, this.handler, this.options,
                IF Defined(this.nameLocalizations)
                THEN this.nameLocalizations ELSE Undefined,
                IF Defined(this.descriptionLocalizations)
                THEN this.descriptionLocalizations ELSE Undefined,
                Undefined)
        newCommand == SubCommand(parameters)
    IN  Returns(this, [newCommand EXCEPT !.name = this.name])

\* A variant that passes no permissions on, whatever its argument.
SubCommand_toNormalCommandDefault(this, memberPermissions) ==
    LET parameters ==
            ConstructionOptions(
                this.description, this.handler, this.options,
                IF Defined(this.nameLocalizations)
                THEN this.nameLocalizations ELSE Undefined,
                IF Defined(this.descriptionLocalizations)
                THEN this.descriptionLocalizations ELSE Undefined,
                Undefined)
        newCommand == NormalCommand(parameters)
    IN  Returns(this, [newCommand EXCEPT !.name = this.name])

\* SubCommand.toNormalCommand(memberPermissions)
SubCommand_toNormalCommand(this, memberPermissions) ==
    LET parameters ==
            ConstructionOptions(
                this.description, this.handler, this.options,
                IF Defined(this.nameLocalizations)
                THEN this.nameLocalizations ELSE Undefined,
                IF Defined(this.descriptionLocalizations)
                THEN this.descriptionLocalizations ELSE Undefined,
                IF Defined(memberPermissions)
                THEN memberPermissions ELSE Undefined)
        newCommand == NormalCommand(parameters)
    IN  Returns(this, [newCommand EXCEPT !.name = this.name])

\* builder.setDefaultMemberPermissions(permissions) stores the number or
\* bigint as its decimal string.
PermissionString(permissions) ==
    [type |-> "string", value |-> permissions.value]

\* An option a builder holds: the method it was added with and the option.
Added(kind, option) == [kind |-> kind, option |-> option]

\* command.add<Kind>Option(option) of the platform's builders: the builder
\* asserts that the option is an instance of the class of the method and
\* pushes it onto its options.
addTypedOption(command, option, kind) ==
    IF option.class # OptionClass[kind]
    THEN Throws(command,
                Error("ExpectedValidationError",
                      Message("Expected", <<>>,
                              <<OptionClass[kind], option.class>>),
                      NoCause))
    ELSE Returns([command EXCEPT !.options = Append(@, Added(kind, option))],
                 Undefined)

\* A variant without the test for an integer option.
addOptionNoInteger(command, option) ==
    IF option.class = OptionClass.Boolean
    THEN addTypedOption(command, option, "Boolean")
    ELSE IF option.class = OptionClass.User
    THEN addTypedOption(command, option, "User")
    ELSE IF option.class = OptionClass.Channel
    THEN addTypedOption(command, option, "Channel")
    ELSE IF option.class = OptionClass.Role
    THEN addTypedOption(command, option, "Role")
    ELSE IF option.class = OptionClass.Attachment
    THEN addTypedOption(command, option, "Attachment")
    ELSE IF option.class = OptionClass.Mentionable
    THEN addTypedOption(command, option, "Mentionable")
    ELSE IF option.class = OptionClass.String
    THEN addTypedOption(command, option, "String")
    ELSE addTypedOption(command, option, "Number")

\* A variant that leaves out an option of no class it knows.
addOptionSkipping(command, option) ==
    IF option.class = OptionClass.Boolean
    THEN addTypedOption(command, option, "Boolean")
    ELSE IF option.class = OptionClass.User
    THEN addTypedOption(command, option, "User")
    ELSE IF option.class = OptionClass.Channel
    THEN addTypedOption(command, option, "Channel")
    ELSE IF option.class = OptionClass.Role
    THEN addTypedOption(command, option, "Role")
    ELSE IF option.class = OptionClass.Attachment
    THEN addTypedOption(command, option, "Attachment")
    ELSE IF option.class = OptionClass.Mentionable
    THEN addTypedOption(command, option, "Mentionable")
    ELSE IF option.class = OptionClass.String
    THEN addTypedOption(command, option, "String")
    ELSE IF option.class = OptionClass.Integer
    THEN addTypedOption(command, option, "Integer")
    ELSE IF option.class = OptionClass.Number
    THEN addTypedOption(command, option, "Number")
    ELSE Returns(command, Undefined)

\* addOption(command, option): the instanceof chain, the last branch taken
\* by whatever is an instance of none of the eight classes before it.
addOption(command, option) ==
    IF option.class = OptionClass.Boolean
    THEN addTypedOption(command, option, "Boolean")
    ELSE IF option.class = OptionClass.User
    THEN addTypedOption(command, option, "User")
    ELSE IF option.class = OptionClass.Channel
    THEN addTypedOption(command, option, "Channel")
    ELSE IF option.class = OptionClass.Role
    THEN addTypedOption(command, option, "Role")
    ELSE IF option.class = OptionClass.Attachment
    THEN addTypedOption(command, option, "Attachment")
    ELSE IF option.class = OptionClass.Mentionable
    THEN addTypedOption(command, option, "Mentionable")
    ELSE IF option.class = OptionClass.String
    THEN addTypedOption(command, option, "String")
    ELSE IF option.class = OptionClass.Integer
    THEN addTypedOption(command, option, "Integer")
    ELSE addTypedOption(command, option, "Number")

RECURSIVE addOptions(_, _)
\* for (const option of this.#options) addOption(builder, option)
addOptions(builder, options) ==
    IF options = <<>> THEN Returns(builder, Undefined)
    ELSE LET added == addOption(builder, Head(options))
         IN  IF added.thrown # NoError THEN added
             ELSE addOptions(added.this, Tail(options))

\* new SlashCommandBuilder() or new SlashCommandSubcommandBuilder(), after
\* the setters toDiscord calls on it.
SlashBuilder(builder, this, permissions) ==
    [builder |-> builder, name |-> this.name,
     name_localizations |-> Coalesce(this.nameLocalizations, Null),
     description |-> this.description,
     description_localizations |->
        Coalesce(this.descriptionLocalizations, Null),
     default_member_permissions |-> permissions,
     options |-> <<>>]

\* new ContextMenuCommandBuilder(), after the setters toDiscord calls on it.
ContextMenuBuilder(type, this) ==
    [builder |-> "ContextMenuCommandBuilder", type |-> type,
     name |-> this.name,
     name_localizations |-> Coalesce(this.nameLocalizations, Null),
     default_member_permissions |-> PermissionString(this.memberPermissions)]

\* A variant that takes the options out of the command as it adds them.
NormalCommand_toDiscordDraining(this) ==
    LET builder == SlashBuilder("SlashCommandBuilder", this,
                                PermissionString(this.memberPermissions))
        added == addOptions(builder, this.options.items)
    IN  IF added.thrown # NoError THEN Throws(this, added.thrown)
        ELSE Returns([this EXCEPT !.options = Array(<<>>)], added.this)

\* NormalCommand.toDiscord()
NormalCommand_toDiscord(this) ==
    LET builder == SlashBuilder("SlashCommandBuilder", this,
                                PermissionString(this.memberPermissions))
        added == addOptions(builder, this.options.items)
    IN  IF added.thrown # NoError THEN Throws(this, added.thrown)
        ELSE Returns(this, added.this)

\* SubCommand.toDiscord(); a subcommand builder holds no permissions.
SubCommand_toDiscord(this) ==
    LET builder == SlashBuilder("SlashCommandSubcommandBuilder", this,
                                Undefined)
        added == addOptions(builder, this.options.items)
    IN  IF added.thrown # NoError THEN Throws(this, added.thrown)
        ELSE Returns(this, added.this)

RECURSIVE addSubcommands(_, _)
\* for (const subcommand of Object.values(this.subcommands))
\*   builder.addSubcommand(subcommand.toDiscord())
addSubcommands(builder, subs) ==
    IF subs = <<>> THEN Returns(builder, Undefined)
    ELSE LET sub == SubCommand_toDiscord(Head(subs))
         IN  IF sub.thrown # NoError THEN Throws(builder, sub.thrown)
             ELSE addSubcommands(
                      [builder EXCEPT
                          !.options =
                              Append(@, Added("Subcommand", sub.returned))],
                      Tail(subs))

\* CategoryCommand.toDiscord()
CategoryCommand_toDiscord(this) ==
    LET builder == SlashBuilder("SlashCommandBuilder", this,
                                PermissionString(this.memberPermissions))
        added == addSubcommands(builder, ObjectValues(this.subcommands))
    IN  IF added.thrown # NoError THEN Throws(this, added.thrown)
        ELSE Returns(this, added.this)

\* UserContextMenuCommand.toDiscord(): the type it sets is
\* ApplicationCommandType.Message.
UserContextMenuCommand_toDiscord(this) ==
    Returns(this, ContextMenuBuilder("Message", this))

\* MessageContextMenuCommand.toDiscord()
MessageContextMenuCommand_toDiscord(this) ==
    Returns(this, ContextMenuBuilder("Message", this))

\* command.toDiscord(), by the class of the command
Command_toDiscord(this) ==
    IF this.class = "NormalCommand" THEN NormalCommand_toDiscord(this)
    ELSE IF this.class = "SubCommand" THEN SubCommand_toDiscord(this)
    ELSE IF this.class = "CategoryCommand" THEN CategoryCommand_toDiscord(this)
    ELSE IF this.class = "UserContextMenuCommand"
    THEN UserContextMenuCommand_toDiscord(this)
    ELSE MessageContextMenuCommand_toDiscord(this)

\* The commands the conversions are run on.
Handlers == {"h1"}
Descriptions == {"Replies"}
Localizations == {Undefined, LocalizationMap("pt")}
Permissions == {Undefined, Number(0), Number(8), BigInt(8)}
ConstructedPermissions == {Undefined, Number(8)}
AssignedNames == {"ping"}
Options == {Option(c) : c \in CommandOption \cup {NotACommandOption}}
\* The options that reach the last two branches of addOption, of which
\* the longer lists are made.
LastOptions ==
    {Option(c) : c \in {OptionClass.Integer, OptionClass.Number,
                        NotACommandOption}}
OptionLists ==
    {<<>>} \cup {<<o>> : o \in Options}
        \cup UNION {[1..n -> LastOptions] : n \in 2..MaxOptions}
OptionArrays == {Undefined} \cup {Array(items) : items \in OptionLists}
Classes ==
    {"NormalCommand", "SubCommand", "CategoryCommand",
     "UserContextMenuCommand", "MessageContextMenuCommand"}
SubcommandNameLists == {<<>>, <<"ban">>, <<"kick", "ban">>}

\* new <class>(options)
New(class, options) ==
    IF class = "NormalCommand" THEN NormalCommand(options)
    ELSE IF class = "SubCommand" THEN SubCommand(options)
    ELSE IF class = "CategoryCommand" THEN CategoryCommand(options)
    ELSE IF class = "UserContextMenuCommand"
    THEN UserContextMenuCommand(options)
    ELSE MessageContextMenuCommand(options)

RECURSIVE withSubcommands(_, _, _)
\* command.subcommands[subcommand.name] = subcommand, for subcommands of
\* the given names made from `options`
withSubcommands(command, names, options) ==
    IF names = <<>> THEN command
    ELSE withSubcommands(
             [command EXCEPT
                 !.subcommands =
                     Set(@, Head(names),
                         [SubCommand(options) EXCEPT !.name = Head(names)])],
             Tail(names), options)

\* No call was made yet.
NoConversion ==
    [op |-> "none", subject |-> Undefined, receiver |-> Undefined,
     argument |-> Undefined, returned |-> Undefined, thrown |-> NoError,
     calls |-> 0]

----------------------------------------------------------------------------
(* The state machine *)

Record(op, modules, interaction, result, afterRaise) ==
    [op |-> op, modules |-> modules, interaction |-> interaction,
     result |-> result, afterRaise |-> afterRaise]

\* new Glimmer(options)
Init ==
    /\ textInputCommands = EmptyObject
    /\ userContextMenuCommands = EmptyObject
    /\ messageContextMenuCommands = EmptyObject
    /\ errorHandler \in {"undefined", "set"}
    /\ listeners = ClientOn(ClientOn(<<>>, "ready", ReadyLogger),
                            "interactionCreate", Dispatcher)
    /\ subcommands = CategorySubcommands
    /\ last = Record("new", <<>>, NoInteraction, NoResult, FALSE)
    /\ everRaised = FALSE
    /\ puts = <<>>
    /\ refreshes = 0
    /\ sinceAdd = 0
    /\ emission = NoEmission
    /\ subscribed = <<>>
    /\ discovery = NoDiscovery
    /\ conversion = NoConversion
    /\ running = <<>>

RECURSIVE FlattenEvents(_)
\* The event handlers of a list of modules, in argument and list order.
FlattenEvents(modules) ==
    IF modules = <<>> THEN <<>>
    ELSE Head(modules).events \o FlattenEvents(Tail(modules))

\* bot.addModules(...modules), while the client holds at most `cap`
\* listeners
AddModulesWithin(modules, cap) ==
    \E reg \in {addModules(
                  Registry(textInputCommands, userContextMenuCommands,
                           messageContextMenuCommands, listeners, <<>>),
                  modules)} :
        /\ Len(reg.listeners) <= cap
        /\ textInputCommands' = reg.text
        /\ userContextMenuCommands' = reg.user
        /\ messageContextMenuCommands' = reg.message
        /\ listeners' = reg.listeners
        /\ last' = Record("addModules", modules, NoInteraction,
                          [NoResult EXCEPT !.warns = reg.warns], FALSE)
        /\ sinceAdd' = 0
        /\ subscribed' = subscribed \o FlattenEvents(modules)
        /\ UNCHANGED <<errorHandler, subcommands, everRaised, puts,
                       refreshes, emission, discovery,
                   conversion, running>>

AddModules(modules) == AddModulesWithin(modules, MaxListeners)

\* The client emits interactionCreate: the subscribed dispatcher runs to
\* completion with the outcomes `out` of the application's own code.
EmitInteractionCreate(interaction, out) ==
    \E result \in {IF Subscribed(listeners, "interactionCreate", Dispatcher)
                   THEN interactionCreate(interaction, out)
                   ELSE NoResult} :
        /\ last' = Record("interactionCreate", <<>>, interaction, result,
                          everRaised)
        /\ everRaised' = (everRaised \/
                            (result.raised /\ result.invoked # <<>>))
        /\ listeners' = AfterEmit(listeners, "interactionCreate")
        /\ UNCHANGED <<textInputCommands, userContextMenuCommands,
                       messageContextMenuCommands, errorHandler, subcommands,
                       puts, refreshes, sinceAdd, emission, subscribed,
                       discovery,
                   conversion, running>>

\* The client emits an event the modules may have subscribed to.
EmitEvent(event) ==
    /\ emission' = Emission(event, emit(listeners, event))
    /\ listeners' = AfterEmit(listeners, event)
    /\ last' = Record("emit", <<>>, NoInteraction, NoResult, FALSE)
    /\ UNCHANGED <<textInputCommands, userContextMenuCommands,
                   messageContextMenuCommands, errorHandler, subcommands,
                   everRaised, puts, refreshes, sinceAdd, subscribed,
                   discovery,
                   conversion, running>>

\* bot.refreshCommands(), the request succeeding
RefreshCommands ==
    /\ refreshes < MaxRefreshes
    /\ puts' = <<Put(refreshBody(textInputCommands, userContextMenuCommands,
                                 messageContextMenuCommands))>>
    /\ refreshes' = refreshes + 1
    /\ sinceAdd' = sinceAdd + 1
    /\ last' = Record("refreshCommands", <<>>, NoInteraction, NoResult, FALSE)
    /\ UNCHANGED <<textInputCommands, userContextMenuCommands,
                   messageContextMenuCommands, errorHandler, listeners,
                   subcommands, everRaised, emission, subscribed,
                   discovery,
                   conversion, running>>

Next ==
    \/ \E modules \in ModuleLists : AddModules(modules)
    \/ \E interaction \in Interactions, out \in Outcomes :
           EmitInteractionCreate(interaction, out)

Spec == Init /\ [][Next]_vars

\* Modules with event handlers are added and their events emitted.
NextEvents ==
    \/ \E modules \in EventModuleLists :
           AddModulesWithin(modules, MaxEventListeners)
    \/ \E event \in ModuleEvents : EmitEvent(event)

SpecEvents == Init /\ [][NextEvents]_vars

\* The interactions sent while the commands are published.
PublishInteractions ==
    { Interaction("chatInput", n, s) :
        n \in CommandNames, s \in {"ban", NoSubcommand} }
    \cup { Interaction(k, n, NoSubcommand) :
        k \in {"userContextMenu", "messageContextMenu"}, n \in CommandNames }

\* Modules are added one at a time, interactions dispatched and the
\* commands published, in any order.
NextPublish ==
    \/ \E m \in Modules : AddModules(<<m>>)
    \/ \E interaction \in PublishInteractions :
           EmitInteractionCreate(interaction, Outcome("ok", "ok"))
    \/ RefreshCommands

SpecPublish == Init /\ [][NextPublish]_vars

\* Module.fromDirectory(directory) is called, no earlier call in progress.
FromDirectory(tree) ==
    /\ discovery.pending = {}
    /\ discovery' = start(tree)
    /\ UNCHANGED <<textInputCommands, userContextMenuCommands,
                   messageContextMenuCommands, errorHandler, listeners,
                   subcommands, last, everRaised, puts, refreshes, sinceAdd,
                   emission, subscribed, conversion, running>>

\* One of the operations in flight completes and the code awaiting it runs.
Completes(task) ==
    /\ task \in discovery.pending
    /\ discovery' =
          awaited(IF task.op = "readdir" THEN readdirCompletes(discovery, task)
                  ELSE IF task.role = "command"
                  THEN fileToCommand(discovery, task)
                  ELSE fileToEventHandler(discovery, task))
    /\ UNCHANGED <<textInputCommands, userContextMenuCommands,
                   messageContextMenuCommands, errorHandler, listeners,
                   subcommands, last, everRaised, puts, refreshes, sinceAdd,
                   emission, subscribed, conversion, running>>

NextDiscovery ==
    \/ \E tree \in TreeNames : FromDirectory(tree)
    \/ \E task \in discovery.pending : Completes(task)

SpecDiscovery == Init /\ [][NextDiscovery]_vars

\* A command is constructed and named, and a category given subcommands;
\* every later call of the run is made on this command.
Construct(class, options, name, subnames) ==
    /\ conversion.op = "none"
    /\ class # "CategoryCommand" => subnames = <<>>
    /\ class \in {"UserContextMenuCommand", "MessageContextMenuCommand",
                  "CategoryCommand"} => options.options = Undefined
    /\ conversion' =
          [NoConversion EXCEPT
              !.op = "new",
              !.argument = options,
              !.subject =
                  LET command == [New(class, options) EXCEPT !.name = name]
                  IN  IF class = "CategoryCommand"
                      THEN withSubcommands(
                               command, subnames,
                               [options EXCEPT
                                   !.options = Array(<<Option(OptionClass.User)>>)])
                      ELSE command]
    /\ UNCHANGED <<textInputCommands, userContextMenuCommands,
                   messageContextMenuCommands, errorHandler, listeners,
                   subcommands, last, everRaised, puts, refreshes, sinceAdd,
                   emission, subscribed, discovery, running>>

\* command.toSubCommand() on the NormalCommand constructed
ToSubCommand ==
    /\ Defined(conversion.subject)
    /\ conversion.subject.class = "NormalCommand"
    /\ \E call \in {NormalCommand_toSubCommand(conversion.subject)} :
           conversion' =
               [conversion EXCEPT
                   !.op = "toSubCommand", !.subject = call.this,
                   !.receiver = call.this, !.argument = Undefined,
                   !.returned = call.returned, !.thrown = call.thrown]
    /\ UNCHANGED <<textInputCommands, userContextMenuCommands,
                   messageContextMenuCommands, errorHandler, listeners,
                   subcommands, last, everRaised, puts, refreshes, sinceAdd,
                   emission, subscribed, discovery, running>>

\* subcommand.toNormalCommand(memberPermissions) on the SubCommand that
\* toSubCommand returned
ToNormalCommand(memberPermissions) ==
    /\ conversion.op = "toSubCommand"
    /\ \E call \in {SubCommand_toNormalCommand(conversion.returned,
                                               memberPermissions)} :
           conversion' =
               [conversion EXCEPT
                   !.op = "toNormalCommand", !.receiver = call.this,
                   !.argument = memberPermissions,
                   !.returned = call.returned, !.thrown = call.thrown]
    /\ UNCHANGED <<textInputCommands, userContextMenuCommands,
                   messageContextMenuCommands, errorHandler, listeners,
                   subcommands, last, everRaised, puts, refreshes, sinceAdd,
                   emission, subscribed, discovery, running>>

\* command.toDiscord() on the command constructed
ToDiscord ==
    /\ Defined(conversion.subject)
    /\ conversion.calls < MaxConversions
    /\ \E call \in {Command_toDiscord(conversion.subject)} :
           conversion' =
               [conversion EXCEPT
                   !.op = "toDiscord", !.subject = call.this,
                   !.receiver = call.this, !.argument = Undefined,
                   !.returned = call.returned, !.thrown = call.thrown,
                   !.calls = @ + 1]
    /\ UNCHANGED <<textInputCommands, userContextMenuCommands,
                   messageContextMenuCommands, errorHandler, listeners,
                   subcommands, last, everRaised, puts, refreshes, sinceAdd,
                   emission, subscribed, discovery, running>>

\* The construction parameters the commands are made from.
ConstructionParameters ==
    {ConstructionOptions(d, h, o, n, l, p) :
        d \in Descriptions, h \in Handlers, o \in OptionArrays,
        n \in Localizations, l \in Localizations,
        p \in ConstructedPermissions}

NextConvert ==
    \/ /\ conversion.op = "none"
       /\ \E class \in Classes, name \in AssignedNames,
             subnames \in SubcommandNameLists,
             options \in ConstructionParameters :
              Construct(class, options, name, subnames)
    \/ ToSubCommand
    \/ \E memberPermissions \in Permissions :
           ToNormalCommand(memberPermissions)
    \/ ToDiscord

SpecConvert == Init /\ [][NextConvert]_vars

\* The interactions received while handlers are suspended.
ConcurrentInteractions ==
    {Interaction("chatInput", "ping", NoSubcommand),
     Interaction("chatInput", "ping", "ban"),
     Interaction("userContextMenu", "ping", NoSubcommand),
     Interaction("messageContextMenu", "constructor", NoSubcommand)}

\* The modules added meanwhile: a command and a category named ping, and
\* a user context-menu command named ping each.
ConcurrentModules ==
    {Module(<<T1, U1, G1>>, <<E1>>), Module(<<K1, U2>>, <<>>)}

\* An interaction arrives, whatever dispatches are suspended.
Receive(interaction, out) ==
    /\ Len(running) < MaxRunning
    /\ Subscribed(listeners, "interactionCreate", Dispatcher)
    /\ running' = receive(running, interaction, out)
    /\ UNCHANGED <<textInputCommands, userContextMenuCommands,
                   messageContextMenuCommands, errorHandler, listeners,
                   subcommands, last, everRaised, puts, refreshes, sinceAdd,
                   emission, subscribed, discovery, conversion>>

\* The handler of a suspended dispatch completes or fails.
Settle(i, out) ==
    /\ i \in Suspended(running)
    /\ running' = settle(running, i, out)
    /\ UNCHANGED <<textInputCommands, userContextMenuCommands,
                   messageContextMenuCommands, errorHandler, listeners,
                   subcommands, last, everRaised, puts, refreshes, sinceAdd,
                   emission, subscribed, discovery, conversion>>

\* Modules are added one at a time, interactions arrive and their handlers
\* settle, in any order.
NextConcurrent ==
    \/ \E m \in ConcurrentModules : AddModules(<<m>>)
    \/ \E interaction \in ConcurrentInteractions, out \in Outcomes :
           Receive(interaction, out)
    \/ \E i \in 1..MaxRunning, out \in Outcomes : Settle(i, out)

SpecConcurrent == Init /\ [][NextConcurrent]_vars

\* `delete object[key]`: removes an own property, and leaves the prototype
\* alone
Delete(object, key) ==
    IF key = "__proto__" THEN object
    ELSE [object EXCEPT !.own[key] = Undefined]

\* The categories whose mapping the application edits, the subcommands it
\* puts there and the interactions it then receives.
EditedCategories == {K1}
PutSubcommands == {S0, S3}
EditedInteractions ==
    {Interaction("chatInput", "ping", "ban"),
     Interaction("chatInput", "ping", "kick"),
     Interaction("chatInput", "ping", "ping")}

\* category.subcommands[subcommand.name] = subcommand, on a category that
\* addModules has registered
PutSubcommand(category, subcommand) ==
    /\ Get(textInputCommands, category.name) = category
    /\ subcommands' =
           [subcommands EXCEPT
               ![category.id] = Set(@, subcommand.name, subcommand)]
    /\ last' = Record("putSubcommand", <<>>, NoInteraction, NoResult, FALSE)
    /\ UNCHANGED <<textInputCommands, userContextMenuCommands,
                   messageContextMenuCommands, errorHandler, listeners,
                   everRaised, puts, refreshes, sinceAdd, emission,
                   subscribed, discovery, conversion, running>>

\* delete category.subcommands[name], on a category that addModules has
\* registered
DeleteSubcommand(category, name) ==
    /\ Get(textInputCommands, category.name) = category
    /\ Has(subcommands[category.id], name)
    /\ subcommands' = [subcommands EXCEPT ![category.id] = Delete(@, name)]
    /\ last' = Record("deleteSubcommand", <<>>, NoInteraction, NoResult,
                      FALSE)
    /\ UNCHANGED <<textInputCommands, userContextMenuCommands,
                   messageContextMenuCommands, errorHandler, listeners,
                   everRaised, puts, refreshes, sinceAdd, emission,
                   subscribed, discovery, conversion, running>>

\* Modules are added, the application edits the mapping of a registered
\* category, and interactions are dispatched, in any order.
NextMapping ==
    \/ \E m \in ConcurrentModules : AddModules(<<m>>)
    \/ \E category \in EditedCategories, subcommand \in PutSubcommands :
           PutSubcommand(category, subcommand)
    \/ \E category \in EditedCategories, name \in {"ban", "kick"} :
           DeleteSubcommand(category, name)
    \/ \E interaction \in EditedInteractions, out \in Outcomes :
           EmitInteractionCreate(interaction, out)

SpecMapping == Init /\ [][NextMapping]_vars

----------------------------------------------------------------------------
(* Vocabulary of the properties *)

CommandInteractionKinds == {"chatInput", "userContextMenu", "messageContextMenu"}
TableNames == {"text", "user", "message"}

TableNamed(t) ==
    IF t = "text" THEN textInputCommands
    ELSE IF t = "user" THEN userContextMenuCommands
    ELSE messageContextMenuCommands

\* The table an interaction of the given kind is to be looked up in.
TableOfInteraction(kind) ==
    IF kind = "chatInput" THEN "text"
    ELSE IF kind = "userContextMenu" THEN "user"
    ELSE "message"

\* The table a command of the given concrete kind belongs in.
TableOfCommand(kind) ==
    IF kind \in {"NormalCommand", "CategoryCommand"} THEN "text"
    ELSE IF kind = "UserContextMenuCommand" THEN "user"
    ELSE IF kind = "MessageContextMenuCommand" THEN "message"
    ELSE "none"

MissLabel(kind) ==
    IF kind = "chatInput" THEN "chat input"
    ELSE IF kind = "userContextMenu" THEN "user context menu"
    ELSE "message context menu"

\* The command that was inserted under `name` into a table or a subcommand
\* mapping and not replaced since, or Undefined when none was.
Entry(object, name) ==
    IF name = "__proto__"
    THEN IF object.proto.type = "command" THEN object.proto ELSE Undefined
    ELSE object.own[name]

RECURSIVE Flatten(_)
\* The commands of a list of modules, in argument and list order.
Flatten(modules) ==
    IF modules = <<>> THEN <<>>
    ELSE Head(modules).commands \o Flatten(Tail(modules))

\* The positions of `commands` that hold a command for table t named n.
Positions(commands, t, n) ==
    {i \in 1..Len(commands) :
        TableOfCommand(commands[i].kind) = t /\ commands[i].name = n}

Latest(S) == CHOOSE i \in S : \A j \in S : j <= i

RECURSIVE WarnNames(_)
WarnNames(warns) ==
    IF warns = <<>> THEN <<>>
    ELSE <<Head(warns).name>> \o WarnNames(Tail(warns))

IsDispatch == last.op = "interactionCreate"
IsAddModules == last.op = "addModules"
\* A command handler (the synthesized one of a category included) raised.
HandlerRaised == last.result.raised /\ last.result.invoked # <<>>
\* The last interaction names a command registered in its kind's table.
RegisteredEntry ==
    Entry(TableNamed(TableOfInteraction(last.interaction.kind)),
          last.interaction.commandName)

----------------------------------------------------------------------------
(* C1..C10 *)

\* C1: dispatching a chat-input, user-context-menu or message-context-menu
\* interaction whose command name was never registered in the table of its
\* kind calls no handler, emits the miss diagnostic and does not raise.
C1_UnregisteredNameIsAMiss ==
    (IsDispatch /\ last.interaction.kind \in CommandInteractionKinds
        /\ RegisteredEntry = Undefined)
    => /\ last.result.invoked = <<>>
       /\ last.result.delegated = <<>>
       /\ last.result.warns =
            <<MissWarning(MissLabel(last.interaction.kind),
                          last.interaction.commandName)>>
       /\ ~last.result.rejected

\* C2: after a command handler has raised in some dispatch, an interaction
\* whose (kind, name) is registered is still routed to the registered
\* command and that command's handler is invoked with it.
C2_RoutedAfterARaise ==
    (IsDispatch /\ last.afterRaise
        /\ last.interaction.kind \in CommandInteractionKinds
        /\ RegisteredEntry # Undefined)
    => /\ last.result.found = RegisteredEntry
       /\ last.result.invoked = <<Call(RegisteredEntry.id, last.interaction)>>

C2_Witness ==
    /\ IsDispatch /\ last.afterRaise
    /\ RegisteredEntry # Undefined
    /\ last.result.invoked # <<>>
    /\ ~last.result.raised

\* C3 as stated: whenever a command handler raises, no exception leaves the
\* interaction listener, whether or not an error handler is configured.
C3_NoExceptionLeavesTheListener ==
    (IsDispatch /\ HandlerRaised) => ~last.result.rejected

\* C3 amended: whenever a command handler raises, an exception leaves the
\* interaction listener only when an error handler is configured and that
\* error handler itself raises; the handler's own exception never does.
C3_OnlyAnErrorHandlerFailureLeaves ==
    (IsDispatch /\ HandlerRaised)
    => /\ last.result.rejected <=> last.result.errorHandlerRaised
       /\ last.result.errorHandlerRaised
            => (errorHandler = "set" /\ last.result.errors # <<>>)

C3_Witness ==
    /\ IsDispatch /\ HandlerRaised
    /\ errorHandler = "set"
    /\ last.result.errors # <<>>
    /\ ~last.result.rejected

\* C4: with an error handler configured, a handler invocation that raises
\* causes exactly one error-handler call carrying the looked-up command and
\* the dispatched interaction; an invocation that completes causes none;
\* with no error handler a raising handler has no observable effect.
C4_ErrorHandlerCalledOncePerRaise ==
    IsDispatch
    => /\ (HandlerRaised /\ errorHandler = "set")
            => /\ last.result.found = RegisteredEntry
               /\ last.result.errors =
                    <<GlimmerError(RegisteredEntry, last.interaction)>>
       /\ (last.result.invoked # <<>> /\ ~last.result.raised)
            => last.result.errors = <<>>
       /\ (HandlerRaised /\ errorHandler = "undefined")
            => /\ last.result.errors = <<>>
               /\ last.result.warns = <<>>
               /\ ~last.result.rejected

C4_Witness ==
    /\ IsDispatch /\ HandlerRaised
    /\ errorHandler = "set"
    /\ Len(last.result.errors) = 1
    /\ last.result.errors[1].command.kind = "CategoryCommand"
    /\ last.result.delegated # <<>>

\* C5: after an addModules call, each table's entry for each name is the
\* last command of that name and table in the call's modules (argument
\* order, then list order), and the entry it had before when there is none.
C5_LastRegistrationWins ==
    [][ (last'.op = "addModules")
        => \E commands \in {Flatten(last'.modules)} :
             \A t \in TableNames, n \in CommandNames :
               \E hits \in {Positions(commands, t, n)} :
                 Entry(TableNamed(t), n)' =
                    IF hits = {} THEN Entry(TableNamed(t), n)
                    ELSE commands[Latest(hits)] ]_vars

C5_Witness ==
    /\ IsAddModules
    /\ Len(last.modules) = 2
    /\ Entry(textInputCommands, "ping") = T3
    /\ Entry(userContextMenuCommands, "ping") = U2
    /\ Entry(messageContextMenuCommands, "ping") = G2

\* C6: addModules emits an override diagnostic for a command exactly when a
\* command of the same name was already inserted into the same table
\* (before the call or earlier in it).
C6_OverrideWarningIffAlreadyInserted ==
    [][ (last'.op = "addModules")
        => LET commands == Flatten(last'.modules)
               expected(i) ==
                   LET t == TableOfCommand(commands[i].kind)
                       n == commands[i].name
                   IN  /\ t # "none"
                       /\ \/ Entry(TableNamed(t), n) # Undefined
                          \/ \E j \in Positions(commands, t, n) : j < i
               names == [i \in 1..Len(commands) |->
                           IF expected(i) THEN <<commands[i].name>>
                           ELSE <<>>]
               Concat[i \in 0..Len(commands)] ==
                   IF i = 0 THEN <<>> ELSE Concat[i - 1] \o names[i]
           IN  WarnNames(last'.result.warns) = Concat[Len(commands)] ]_vars

\* C7: for every inbound interaction at most one command handler is
\* invoked, at most once, and it is the handler of the command registered
\* under the interaction's name in the table of the interaction's kind.
C7_AtMostTheRegisteredHandler ==
    IsDispatch
    => /\ Len(last.result.invoked) <= 1
       /\ Len(last.result.delegated) <= 1
       /\ last.result.invoked # <<>>
            => /\ last.interaction.kind \in CommandInteractionKinds
               /\ RegisteredEntry # Undefined
               /\ last.result.invoked =
                    <<Call(RegisteredEntry.id, last.interaction)>>

C7_Witness ==
    /\ IsDispatch
    /\ last.interaction.kind = "userContextMenu"
    /\ last.interaction.commandName = "ping"
    /\ Entry(textInputCommands, "ping") # Undefined
    /\ Entry(messageContextMenuCommands, "ping") # Undefined
    /\ last.result.invoked # <<>>

\* C8: addModules inserts each command into the one table of its concrete
\* kind (NormalCommand and CategoryCommand: text-input; UserContextMenu-
\* Command: user-menu; MessageContextMenuCommand: message-menu); a table
\* none of the call's commands belongs in is left unchanged.
C8_InsertedIntoTheTableOfItsKind ==
    [][ (last'.op = "addModules")
        => \E commands \in {Flatten(last'.modules)} :
             /\ \A t \in TableNames :
                  (\A i \in 1..Len(commands) :
                      TableOfCommand(commands[i].kind) # t)
                  => TableNamed(t)' = TableNamed(t)
             /\ \A t \in TableNames, n \in CommandNames :
                  \A i \in Positions(commands, t, n) :
                      /\ Entry(TableNamed(t), n)' # Undefined
                      /\ \A u \in TableNames \ {t} :
                           Entry(TableNamed(u), n)' # commands[i] ]_vars

C8_Witness ==
    /\ IsAddModules
    /\ last.modules = <<Module(<<K1, U2>>, <<>>)>>
    /\ Entry(textInputCommands, "ping") = K1
    /\ Entry(userContextMenuCommands, "ping") = U2
    /\ Entry(messageContextMenuCommands, "ping") = G1

\* C9: a chat-input interaction dispatched to a registered CategoryCommand
\* whose selected subcommand name has no entry in the category's mapping
\* invokes no subcommand handler, emits a diagnostic and does not raise.
C9_UnknownSubcommandIsAMiss ==
    (IsDispatch /\ last.interaction.kind = "chatInput"
        /\ RegisteredEntry # Undefined
        /\ RegisteredEntry.kind = "CategoryCommand"
        /\ last.interaction.subcommand # NoSubcommand
        /\ Entry(subcommands[RegisteredEntry.id],
                 last.interaction.subcommand) = Undefined)
    => /\ last.result.delegated = <<>>
       /\ last.result.warns =
            <<SubcommandMissWarning(last.interaction.subcommand,
                                    RegisteredEntry.name)>>
       /\ ~last.result.raised
       /\ ~last.result.rejected
       /\ last.result.errors = <<>>

C9_Witness ==
    /\ IsDispatch /\ last.interaction.kind = "chatInput"
    /\ RegisteredEntry = K1
    /\ last.interaction.subcommand = "constructor"
    /\ last.result.invoked # <<>>
    /\ last.result.warns # <<>>

\* C10: a chat-input interaction dispatched to a registered CategoryCommand
\* whose selected subcommand name s has an entry in the mapping invokes
\* exactly the handler of the SubCommand stored under s, once, with that
\* same interaction.
C10_DelegatesToTheSelectedSubcommand ==
    (IsDispatch /\ last.interaction.kind = "chatInput"
        /\ RegisteredEntry # Undefined
        /\ RegisteredEntry.kind = "CategoryCommand"
        /\ last.interaction.subcommand # NoSubcommand
        /\ Entry(subcommands[RegisteredEntry.id],
                 last.interaction.subcommand) # Undefined)
    => /\ last.result.delegated =
            <<Call(Entry(subcommands[RegisteredEntry.id],
                         last.interaction.subcommand).id,
                   last.interaction)>>
       /\ last.result.warns = <<>>

C10_Witness ==
    /\ IsDispatch /\ last.interaction.kind = "chatInput"
    /\ RegisteredEntry = K1
    /\ last.interaction.subcommand = "kick"
    /\ last.result.delegated = <<Call("S2", last.interaction)>>

----------------------------------------------------------------------------
(* Events, publishing and the growth of the registry *)

IsEmit == last.op = "emit"
IsRefresh == last.op = "refreshCommands"

\* The handlers the modules subscribed under `event`, in the order in which
\* addModules was given them.
SubscribedUnder(event) ==
    LET handlers == SelectSeq(subscribed, LAMBDA h : h.eventType = event)
    IN  [i \in 1..Len(handlers) |-> handlers[i].id]

\* The handlers of modules among those an emission ran.
ModuleHandlersRun ==
    SelectSeq(emission.ran, LAMBDA h : h \notin {ReadyLogger, Dispatcher})

\* C11: registration of event handlers is additive: when an event is
\* emitted, the handlers of modules that run are exactly the handlers every
\* addModules call so far subscribed under that event, none replaced or
\* dropped, in the order in which they were subscribed.
C11_EveryHandlerRunsInSubscriptionOrder ==
    IsEmit => ModuleHandlersRun = SubscribedUnder(emission.event)

\* "ready" is emitted after one module subscribed E2 and a later one E1.
C11_Witness ==
    /\ IsEmit /\ emission.event = "ready"
    /\ emission.ran = <<ReadyLogger, "E2", "E1">>

\* The (table, name) pairs that hold a command.
Entries ==
    {e \in TableNames \X CommandNames :
        Entry(TableNamed(e[1]), e[2]) # Undefined}

\* C12: refreshCommands makes one rest.put call whose body holds exactly one
\* declaration for every command currently held in the three tables, and
\* nothing else (so no declaration of a command that was overwritten).
C12_OneDeclarationPerEntry ==
    IsRefresh =>
        /\ Len(puts) = 1
        /\ \E body \in {puts[1].body} :
            /\ Len(body) = Cardinality(Entries)
            /\ \A e \in Entries :
                   \E j \in 1..Len(body) :
                       /\ body[j].command = Entry(TableNamed(e[1]), e[2]).id
                       /\ body[j].name = e[2]
            /\ \A j \in 1..Len(body) :
                   \E e \in Entries :
                       body[j].command = Entry(TableNamed(e[1]), e[2]).id

\* C13: refreshCommands leaves the three tables as they are, and a call
\* made when no addModules call came after the previous one submits the
\* list the previous one submitted.
C13_RepeatedRefreshSubmitsTheSameList ==
    [][refreshes' = refreshes + 1 =>
        /\ UNCHANGED <<textInputCommands, userContextMenuCommands,
                       messageContextMenuCommands>>
        /\ (sinceAdd >= 1 => puts' = puts)]_vars

\* A second refreshCommands with no addModules since the first, three
\* tables holding commands.
C13_Witness ==
    /\ IsRefresh /\ sinceAdd = 2
    /\ Len(puts[1].body) >= 3
    /\ \A t \in TableNames : Entry(TableNamed(t), "ping") # Undefined

\* C14: a refreshCommands call changes the routing of no interaction: the
\* dispatcher invokes the same handlers, with the same warnings and errors,
\* for every interaction after the call as before it, so routing is the
\* same after zero, one or several calls.
C14_PublishingChangesNoRouting ==
    [][refreshes' = refreshes + 1 =>
        \A interaction \in PublishInteractions, out \in Outcomes :
            interactionCreate(interaction, out)' =
                interactionCreate(interaction, out)]_vars

\* A registered command is dispatched to after the commands were published
\* twice.
C14_Witness ==
    /\ IsDispatch /\ refreshes = 2
    /\ RegisteredEntry # Undefined
    /\ last.result.invoked = <<Call(RegisteredEntry.id, last.interaction)>>

\* C15: the three tables start empty and only grow: no step of addModules,
\* dispatch or refreshCommands leaves a table without a name it held.
C15_TablesStartEmptyAndNeverShrink ==
    /\ \A t \in TableNames, n \in CommandNames :
           Entry(TableNamed(t), n) = Undefined
    /\ [][\A t \in TableNames, n \in CommandNames :
             Entry(TableNamed(t), n) # Undefined
                => Entry(TableNamed(t), n)' # Undefined]_vars

\* The names two addModules calls registered are all held after a
\* refreshCommands and a dispatch that came later.
C15_Witness ==
    /\ IsDispatch /\ refreshes >= 1
    /\ \A n \in CommandNames : Entry(textInputCommands, n) # Undefined
    /\ \A n \in {"ping", "constructor"} :
           Entry(userContextMenuCommands, n) # Undefined

----------------------------------------------------------------------------
(* Discovery *)

Returned == discovery.outcome.type = "module"
Failed == discovery.outcome.type = "rejected"
\* A call was made and none of its operations is in flight any more.
Quiet == discovery.phase # "idle" /\ discovery.pending = {}
TheModule == discovery.outcome.module

\* The files of the directory discovery runs on: the path of each and what
\* it exports.
TreeFiles ==
    LET tree == Trees[discovery.tree]
    IN  UNION {{[path |-> PathJoin(p, tree[p].entries[i].file),
                 export |-> tree[p].entries[i].export] :
                    i \in 1..Len(tree[p].entries)} : p \in DOMAIN tree}

\* The base name, extension stripped, of the file that exports a command.
BaseNameOfFileOf(id) ==
    LET file == CHOOSE f \in TreeFiles :
                    IsCommand(f.export) /\ f.export.id = id
    IN  PathParse(PathBase(file.path)).name

\* The subcommands the mappings of the categories hold.
MappedSubcommands ==
    {Entry(discovery.mapping[c], k) : c \in CategoryIds, k \in Keys}
        \ {Undefined}

\* C16: in a Module discovery returned, every command of the list and every
\* subcommand of a category's mapping is named after its file: the base
\* name with the extension stripped, whatever name its author gave it.
C16_NamedAfterTheFile ==
    Returned =>
        /\ \A i \in 1..Len(TheModule.commands) :
               TheModule.commands[i].name =
                   BaseNameOfFileOf(TheModule.commands[i].id)
        /\ \A sub \in MappedSubcommands :
               /\ sub.name = BaseNameOfFileOf(sub.id)
               /\ discovery.names[sub.id] = sub.name

\* A category from ping.js with the subcommand of kick.js, which its author
\* had named "pong".
C16_Witness ==
    /\ Returned
    /\ \E i \in 1..Len(TheModule.commands) : TheModule.commands[i] = K1
    /\ AuthoredName("S2") = "pong"
    /\ Entry(discovery.mapping["K1"], "kick") = S2

\* The entries of the subdirectory of a discovered category.
SubcommandFilesOf(category) ==
    LET file == CHOOSE f \in TreeFiles :
                    IsCommand(f.export) /\ f.export.id = category.id
    IN  readdir(Trees[discovery.tree],
                PathJoin(PathDir(file.path), category.name)).entries

\* The names under which a mapping holds a subcommand.
MappedNames(mapping) == {k \in Keys : Entry(mapping, k) # Undefined}

\* C17: for every category of a returned Module, whose subdirectory holds
\* N subcommand files, the mapping holds exactly N subcommands, under the
\* base names of those files, and the category's declaration embeds
\* exactly N sub-declarations.
C17_OneSubcommandPerFile ==
    Returned =>
        \A i \in 1..Len(TheModule.commands) :
            TheModule.commands[i].kind = "CategoryCommand" =>
                \E files \in {SubcommandFilesOf(TheModule.commands[i])},
                   mapping \in {discovery.mapping[TheModule.commands[i].id]} :
                    /\ Cardinality(MappedNames(mapping)) = Len(files)
                    /\ MappedNames(mapping) =
                         {PathParse(files[j].file).name : j \in 1..Len(files)}
                    /\ Len(toDiscord(TheModule.commands[i],
                                     mapping).subcommands) = Len(files)

\* C18: the command list of a Module discovery returned holds top-level
\* commands only: no element of it is a SubCommand.
C18_NoSubCommandInTheList ==
    Returned =>
        \A i \in 1..Len(TheModule.commands) :
            TheModule.commands[i].kind # "SubCommand"

\* The .js files directly in one of the given directories.
JsFilesIn(dirs) ==
    {f \in TreeFiles : PathDir(f.path) \in dirs /\ EndsWithJs(PathBase(f.path))}

\* The files in the subdirectory of a top-level category file.
SubdirectoryFiles ==
    {f \in TreeFiles :
        \E c \in JsFilesIn({TextInput, MessageMenu, UserMenu}) :
            /\ IsCommand(c.export) /\ c.export.kind = "CategoryCommand"
            /\ PathDir(f.path) =
                 PathJoin(PathDir(c.path), PathParse(PathBase(c.path)).name)}

\* The malformed files: a top-level command file that does not export a
\* command, a file of a category's subdirectory that does not export a
\* subcommand, an event file that does not export an event handler of the
\* event it is named after.
MalformedCommandFiles ==
    {f \in JsFilesIn({TextInput, MessageMenu, UserMenu}) : ~IsCommand(f.export)}
MalformedSubcommandFiles ==
    {f \in SubdirectoryFiles :
        ~(IsCommand(f.export) /\ f.export.kind = "SubCommand")}
MalformedEventFiles ==
    {f \in JsFilesIn({Events}) :
        ~(IsEventHandler(f.export)
          /\ f.export.eventType = PathParse(PathBase(f.path)).name)}
MalformedFiles ==
    MalformedCommandFiles \cup MalformedSubcommandFiles
        \cup MalformedEventFiles

\* C19: discovery is all-or-nothing: with a malformed command, subcommand
\* or event file in the directory the call never returns a Module and has
\* failed once its operations are over; a Module is returned only when no
\* file is malformed and nothing was thrown.
C19_AllOrNothing ==
    discovery.phase # "idle" =>
        /\ MalformedFiles # {} => ~Returned /\ (Quiet => Failed)
        /\ Returned => MalformedFiles = {} /\ discovery.thrown = {}

\* The call failed on kick.js, which exports no SubCommand, after ban.js had
\* been stored in the category's mapping.
C19_Witness ==
    /\ Quiet /\ Failed
    /\ discovery.tree = "notASubCommand"
    /\ Entry(discovery.mapping["K1"], "ban") = S1
    /\ discovery.outcome.error.message.file =
         <<"commands/text-input", "ping", "kick.js">>

\* An error naming `file` and the type `requiredType` was thrown, and it is
\* the one the call failed with when it is the only one thrown.
FailedNaming(file, requiredType) ==
    /\ Failed
    /\ \E e \in discovery.thrown :
        /\ e.message.file = file
        /\ e.message.names = <<requiredType>>
        /\ discovery.thrown = {e} => discovery.outcome.error = e

\* The files that load and export a value of the wrong type.
WrongCommandFiles == {f \in MalformedCommandFiles : f.export # Unloadable}
WrongSubcommandFiles ==
    {f \in MalformedSubcommandFiles : f.export # Unloadable}

\* C20: a top-level command file whose default export is not a Command
\* makes discovery fail with an error naming the file and Command, and a
\* file of a category's subdirectory whose default export is not a
\* SubCommand makes it fail with an error naming the file and SubCommand.
C20_NamesTheFileAndTheExpectedType ==
    Quiet =>
        /\ \A f \in WrongCommandFiles : FailedNaming(f.path, "Command")
        /\ \A f \in WrongSubcommandFiles : FailedNaming(f.path, "SubCommand")

\* C20, amended: a file with a wrong export is never skipped, discovery
\* fails.  The error names the file and Command when the export is not a
\* Command, at top level and in a category's subdirectory alike; it names
\* the file and SubCommand when a file of a subdirectory exports a Command
\* that is neither a SubCommand nor a CategoryCommand; and for a
\* CategoryCommand exported there, which has no subdirectory of its own,
\* it is the error of reading that subdirectory, naming the subdirectory.
C20_NamesTheFileAndTheTypeChecked ==
    Quiet =>
        /\ \A f \in WrongCommandFiles : FailedNaming(f.path, "Command")
        /\ \A f \in WrongSubcommandFiles :
               IF ~IsCommand(f.export) THEN FailedNaming(f.path, "Command")
               ELSE IF f.export.kind # "CategoryCommand"
               THEN FailedNaming(f.path, "SubCommand")
               ELSE /\ Failed
                    /\ \E e \in discovery.thrown :
                        /\ e.message.text = "Couldn't read subcommands"
                        /\ e.message.file =
                             PathJoin(PathDir(f.path),
                                      PathParse(PathBase(f.path)).name)

\* kick.js in the subdirectory of the category exports no Command: the call
\* failed naming kick.js and Command.
C20_Witness ==
    /\ Quiet /\ Failed
    /\ discovery.tree = "subNotACommand"
    /\ discovery.outcome.error.message =
         wrongExportMessage(<<"commands/text-input", "ping", "kick.js">>,
                            "Command")

\* The subdirectories, named after the base name of a file that exports a
\* CategoryCommand, that cannot be read.
UnreadableSubdirectories ==
    {PathJoin(PathDir(f.path), PathParse(PathBase(f.path)).name) :
        f \in {g \in JsFilesIn({TextInput, MessageMenu, UserMenu})
                        \cup SubdirectoryFiles :
                    /\ IsCommand(g.export)
                    /\ g.export.kind = "CategoryCommand"
                    /\ ~readdir(Trees[discovery.tree],
                                PathJoin(PathDir(g.path),
                                         PathParse(PathBase(g.path)).name)
                               ).exists}}

\* C21: when the subdirectory of a discovered CategoryCommand cannot be
\* read, no Module is returned and the call fails; the error thrown for the
\* subdirectory carries the error readdir rejected with as its cause, and
\* it is the error of the call when nothing else was thrown.
C21_UnreadableSubdirectoryFailsWithCause ==
    Quiet =>
        \A dirname \in UnreadableSubdirectories :
            /\ Failed
            /\ \E e \in discovery.thrown :
                /\ e.message.file = dirname
                /\ e.cause = ReaddirError(dirname).message
                /\ discovery.thrown = {e} => discovery.outcome.error = e

\* ping.js exports a category and commands/text-input/ping does not exist.
C21_Witness ==
    /\ Quiet /\ Failed
    /\ discovery.tree = "noSubdirectory"
    /\ discovery.names["K1"] = "ping"
    /\ discovery.outcome.error.cause =
         ReaddirError(<<"commands/text-input", "ping">>).message

\* C22: every event handler of a returned Module handles the event its
\* file is named after; and once the events directory has been read, an
\* event file that exports an EventHandler of another event, or no
\* EventHandler, has made the call fail with an error naming the file and,
\* for the other event, that event (the error of the call when it is the
\* only one thrown).
C22_EventHandlersNamedAfterTheirEvent ==
    /\ Returned =>
           \A i \in 1..Len(TheModule.events) :
               \E f \in JsFilesIn({Events}) :
                   /\ f.export = TheModule.events[i]
                   /\ TheModule.events[i].eventType =
                        PathParse(PathBase(f.path)).name
    /\ Quiet /\ discovery.phase # "commands" =>
           \A f \in {g \in MalformedEventFiles : g.export # Unloadable} :
               /\ Failed
               /\ \E e \in discovery.thrown :
                   /\ e.message.file = f.path
                   /\ IsEventHandler(f.export) =>
                          \E j \in 1..Len(e.message.names) :
                              e.message.names[j] = f.export.eventType
                   /\ discovery.thrown = {e} => discovery.outcome.error = e

\* events/ready.js exports a handler of messageCreate: the call failed
\* naming the file and messageCreate.
C22_Witness ==
    /\ Quiet /\ Failed
    /\ discovery.tree = "wrongEvent"
    /\ discovery.outcome.error.message =
         Message("handles another event", <<"events", "ready.js">>,
                 <<"messageCreate", "ready">>)

\* C23: converting a NormalCommand to a SubCommand and back with a
\* permission value gives a NormalCommand of the same name, description,
\* name and description localizations, options and handler, with that
\* permission; converted back with no argument it has the permission 0,
\* whatever the permission of the original was.
C23_RoundTripKeepsAllButThePermission ==
    conversion.op = "toNormalCommand" =>
        /\ conversion.thrown = NoError
        /\ conversion.returned.class = "NormalCommand"
        /\ \A field \in {"name", "description", "nameLocalizations",
                         "descriptionLocalizations", "options", "handler"} :
               conversion.returned[field] = conversion.subject[field]
        /\ conversion.returned.memberPermissions =
              IF conversion.argument = Undefined THEN Number(0)
              ELSE conversion.argument

\* A command that required permission 8, with localizations and two
\* options, converted there and back with no argument: the permission is 0.
C23_Witness ==
    /\ conversion.op = "toNormalCommand"
    /\ conversion.argument = Undefined
    /\ conversion.subject.memberPermissions = Number(8)
    /\ conversion.subject.nameLocalizations # Undefined
    /\ Len(conversion.subject.options.items) = MaxOptions
    /\ conversion.returned.memberPermissions = Number(0)

\* C24: toDiscord keeps the context-menu kind: a UserContextMenuCommand
\* gives a declaration of the user context-menu type and a
\* MessageContextMenuCommand one of the message context-menu type.
C24_ContextMenuKindIsKept ==
    conversion.op = "toDiscord" /\ conversion.thrown = NoError =>
        /\ conversion.subject.class = "UserContextMenuCommand" =>
               conversion.returned.type = "User"
        /\ conversion.subject.class = "MessageContextMenuCommand" =>
               conversion.returned.type = "Message"

\* The sub-declarations of the category `command` of a returned Module, in
\* the order its toDiscord adds them.
SubDeclarations(command) ==
    LET subs == ObjectValuesInserted(discovery.mapping[command.id],
                                     discovery.inserted[command.id])
    IN  [i \in 1..Len(subs) |-> subCommandToDiscord(subs[i])]

\* C25: a category's declaration lists its sub-declarations in the order
\* in which the subcommand files were discovered, the enumeration order of
\* its subdirectory.
C25_SubDeclarationsInDiscoveryOrder ==
    Returned =>
        \A i \in 1..Len(TheModule.commands) :
            TheModule.commands[i].kind = "CategoryCommand" =>
                \E files \in {SubcommandFilesOf(TheModule.commands[i])},
                   subs \in {SubDeclarations(TheModule.commands[i])} :
                    <<Len(subs),
                      [j \in 1..Len(subs) |-> subs[j].name]>> =
                    <<Len(files),
                      [j \in 1..Len(files) |-> PathParse(files[j].file).name]>>

\* C26: toDiscord is pure: a call changes neither the fields of the
\* command nor a category's subcommand mapping, and a call that follows
\* another on the unchanged command returns an identical declaration (or
\* throws the same error).
C26_ToDiscordIsPure ==
    [][conversion'.op = "toDiscord" =>
          /\ conversion'.subject = conversion.subject
          /\ conversion.op = "toDiscord" =>
                /\ conversion'.returned = conversion.returned
                /\ conversion'.thrown = conversion.thrown]_vars

\* A category of two subcommands converted a second time, giving a
\* declaration of two sub-declarations with one option each.
C26_Witness ==
    /\ conversion.op = "toDiscord"
    /\ conversion.calls >= 2
    /\ conversion.subject.class = "CategoryCommand"
    /\ Len(conversion.returned.options) = 2
    /\ \A i \in 1..2 : Len(conversion.returned.options[i].option.options) = 1

\* The platform option kind of an option of the union.
KindOf(option) == CHOOSE k \in OptionKinds : OptionClass[k] = option.class

Supported(items) ==
    \A i \in 1..Len(items) : items[i].class \in CommandOption

\* C27: the declaration of a NormalCommand or SubCommand whose options are
\* all of the supported kinds holds exactly the command's options, in list
\* order, each added under the platform kind of its own class.
C27_EachOptionUnderItsOwnKind ==
    /\ conversion.op = "toDiscord"
    /\ conversion.subject.class \in {"NormalCommand", "SubCommand"}
    /\ Supported(conversion.subject.options.items)
    => /\ conversion.thrown = NoError
       /\ \E items \in {conversion.subject.options.items} :
              conversion.returned.options =
                  [i \in 1..Len(items) |-> Added(KindOf(items[i]), items[i])]

\* A SubCommand's number option and integer option, added in that order.
C27_Witness ==
    /\ conversion.op = "toDiscord"
    /\ conversion.subject.class = "SubCommand"
    /\ conversion.thrown = NoError
    /\ Len(conversion.returned.options) = MaxOptions
    /\ conversion.returned.options[1].kind = "Number"
    /\ conversion.returned.options[2].kind = "Integer"

RECURSIVE InListingOrder(_, _)
\* The mapping that holds the subcommands of `files` inserted one after
\* the other in the order of the listing, each under its base name.
InListingOrder(object, files) ==
    IF files = <<>> THEN object
    ELSE LET name == PathParse(Head(files).file).name
         IN  InListingOrder(
                 Set(object, name, [Head(files).export EXCEPT !.name = name]),
                 Tail(files))

DistinctBaseNames(files) ==
    \A i, j \in 1..Len(files) :
        PathParse(files[i].file).name = PathParse(files[j].file).name => i = j

\* C29: discovery returns a Module only when every load has completed, and
\* the mapping of a category whose subcommand files have pairwise distinct
\* base names is then the one the files give when inserted in the order of
\* the listing: the same for every order in which the loads completed.
C29_MappingIndependentOfCompletionOrder ==
    Returned =>
        /\ discovery.pending = {}
        /\ \A i \in 1..Len(TheModule.commands) :
               TheModule.commands[i].kind = "CategoryCommand" =>
                   \E files \in {SubcommandFilesOf(TheModule.commands[i])} :
                       DistinctBaseNames(files) =>
                           discovery.mapping[TheModule.commands[i].id] =
                               InListingOrder(EmptyObject, files)

\* kick.js was inserted before ban.js, against the order of the listing,
\* and the Module returned holds both under their names.
C29_Witness ==
    /\ Returned
    /\ discovery.tree = "category"
    /\ discovery.inserted["K1"] = <<"kick", "ban">>
    /\ Entry(discovery.mapping["K1"], "ban").id = "S1"
    /\ Entry(discovery.mapping["K1"], "kick").id = "S2"

\* The command registered for an interaction in the table of its kind.
RegisteredFor(interaction) ==
    Entry(TableNamed(TableOfInteraction(interaction.kind)),
          interaction.commandName)

\* C30: dispatches do not block one another.  An interaction that arrives,
\* whatever dispatches are suspended, is looked up and the handler of its
\* registered command invoked, the earlier dispatches left as they were;
\* and the completion or failure of one handler changes that dispatch
\* alone, never what another dispatch found, invoked or did.
C30_DispatchesDoNotBlockOneAnother ==
    [][/\ Len(running') = Len(running) + 1 =>
            \E d \in {running'[Len(running')]} :
                /\ SubSeq(running', 1, Len(running)) = running
                /\ \E command \in {RegisteredFor(d.interaction)} :
                       command # Undefined =>
                           /\ d.found = command
                           /\ d.invoked = <<Call(command.id, d.interaction)>>
       /\ Len(running') = Len(running) =>
            \A i \in 1..Len(running) :
                running'[i] # running[i] =>
                    /\ \A j \in 1..Len(running) :
                           j # i => running'[j] = running[j]
                    /\ running'[i].found = running[i].found
                    /\ running'[i].invoked = running[i].invoked]_vars

\* The second interaction arrived while the first handler was suspended
\* and its handler was invoked; the first handler then failed and was
\* reported, the second still being suspended.
C30_Witness ==
    /\ Len(running) = 2
    /\ running[2].overlapped = {1}
    /\ running[2].invoked # <<>>
    /\ ~running[2].settled
    /\ running[1].settled
    /\ running[1].result.raised
    /\ running[1].result.errors # <<>>

\* C31: addModules, dispatch and refreshCommands modify no Module and no
\* command.  No step changes the subcommand mapping of a category; a table
\* entry changes only in addModules, and the command a table then holds is
\* a command of the modules passed, exactly as it was passed (its name
\* included); the event handlers recorded as passed by earlier modules stay
\* as they were.
C31_ModulesAndCommandsAreNotModified ==
    [][/\ subcommands' = subcommands
       /\ \A t \in TableNames, n \in Keys :
              Entry(TableNamed(t), n)' # Entry(TableNamed(t), n) =>
                  /\ IsAddModules'
                  /\ \E i \in 1..Len(Flatten(last'.modules)) :
                         Flatten(last'.modules)[i] = Entry(TableNamed(t), n)'
       /\ SubSeq(subscribed', 1, Len(subscribed)) = subscribed]_vars

\* The category K1 was registered and published with its two subcommands,
\* and its subcommand mapping is the one it was given.
C31_Witness ==
    /\ IsRefresh
    /\ Len(puts) = 1
    /\ Entry(textInputCommands, "ping") = K1
    /\ subcommands["K1"] = CategorySubcommands["K1"]
    /\ \E j \in 1..Len(puts[1].body) :
           /\ puts[1].body[j].command = "K1"
           /\ Len(puts[1].body[j].subcommands) = 2

\* C32: the dispatcher's catch covers the command handler only: when the
\* error handler, called once for a command handler that raised, itself
\* raises, its exception leaves the interaction listener.
C32_ErrorHandlerFailureIsNotCaught ==
    (IsDispatch /\ last.result.errorHandlerRaised)
    => /\ last.result.raised
       /\ Len(last.result.errors) = 1
       /\ last.result.errors[1].interaction = last.interaction
       /\ last.result.rejected

\* The handler of a registered command raised, the error handler was
\* called and raised too, and the listener failed.
C32_Witness ==
    /\ IsDispatch /\ HandlerRaised
    /\ RegisteredEntry # Undefined
    /\ last.result.errorHandlerRaised
    /\ last.result.rejected

\* C33: a dispatch through a category whose subcommand handler raises
\* fails in the category's own handler, and the error handler is called
\* once, with the CategoryCommand and not the SubCommand attached.  Stated
\* of every dispatch that delegated to a subcommand: had that subcommand's
\* handler raised, this is what the listener did.
C33_SubcommandFailureReportsTheCategory ==
    (IsDispatch /\ last.result.delegated # <<>> /\ errorHandler = "set")
    => \E r \in {interactionCreate(last.interaction, Outcome("raise", "ok"))} :
           /\ RegisteredEntry.kind = "CategoryCommand"
           /\ r.delegated = last.result.delegated
           /\ r.raised
           /\ r.errors = <<GlimmerError(RegisteredEntry, last.interaction)>>
           /\ last.result.raised => last.result.errors = r.errors

\* The handler of the subcommand S1 of the category K1 raised and the
\* error handler was called with K1.
C33_Witness ==
    /\ IsDispatch
    /\ last.result.raised
    /\ last.result.delegated = <<Call("S1", last.interaction)>>
    /\ last.result.errors = <<GlimmerError(K1, last.interaction)>>

----------------------------------------------------------------------------
(* C34..C38 *)

\* C34: a category's synthesized handler resolves the subcommand through
\* the mapping the category holds when it is invoked: whatever was put into
\* the mapping or deleted from it since addModules registered the category,
\* a dispatch delegates to the SubCommand the mapping now stores under the
\* selected name, once, and is a routing miss with a diagnostic when the
\* mapping now stores none.
C34_MappingIsReadAtInvocation ==
    (IsDispatch /\ RegisteredEntry # Undefined
        /\ RegisteredEntry.kind = "CategoryCommand"
        /\ last.interaction.subcommand # NoSubcommand)
    => \E entry \in {Entry(subcommands[RegisteredEntry.id],
                           last.interaction.subcommand)} :
           IF entry # Undefined
           THEN /\ last.result.delegated = <<Call(entry.id, last.interaction)>>
                /\ last.result.warns = <<>>
           ELSE /\ last.result.delegated = <<>>
                /\ last.result.warns =
                     <<SubcommandMissWarning(last.interaction.subcommand,
                                             RegisteredEntry.name)>>
                /\ ~last.result.raised

\* K1 was registered, then S0 was put under "ping" and "ban" was deleted:
\* the dispatch of ping/ping reaches S0, which the category was not
\* constructed with.
C34_Witness ==
    /\ IsDispatch /\ RegisteredEntry = K1
    /\ Entry(CategorySubcommands["K1"], "ping") = Undefined
    /\ Entry(CategorySubcommands["K1"], "ban") = S1
    /\ Entry(subcommands["K1"], "ban") = Undefined
    /\ last.interaction.subcommand = "ping"
    /\ last.result.delegated = <<Call("S0", last.interaction)>>

\* K1 was registered with ban, ban was deleted, and ping/ban is a miss.
C34_RemovedIsAMiss ==
    /\ IsDispatch /\ RegisteredEntry = K1
    /\ Entry(CategorySubcommands["K1"], "ban") = S1
    /\ last.interaction.subcommand = "ban"
    /\ last.result.delegated = <<>>
    /\ last.result.warns = <<SubcommandMissWarning("ban", "ping")>>

\* The entries of the command directories and of the events directory that
\* do not end in .js.
TopLevelNonJsFiles ==
    {f \in TreeFiles :
        /\ PathDir(f.path) \in {TextInput, MessageMenu, UserMenu, Events}
        /\ ~EndsWithJs(PathBase(f.path))}

\* C35: discovery filters by the .js extension at the top level only. An
\* entry of a command directory or of the events directory that does not
\* end in .js is never imported and no error names it as a file (it is
\* named only as the subdirectory of a category that could not be read);
\* every entry of the subdirectory of a category, whatever its extension,
\* is loaded: when one
\* of them does not yield a SubCommand the call never returns a Module and
\* has failed once its operations are over, and when a Module is returned
\* each of them was loaded and named after its file.
C35_ExtensionFilterAtTopLevelOnly ==
    /\ \A task \in discovery.pending :
           (task.op = "import" /\ task.owner = NoOwner)
               => EndsWithJs(PathBase(task.path))
    /\ discovery.phase # "idle" =>
           /\ \A f \in TopLevelNonJsFiles, e \in discovery.thrown :
                  e.message.file = f.path =>
                      e.message.text = "Couldn't read subcommands"
           /\ MalformedSubcommandFiles # {} =>
                  /\ ~Returned
                  /\ Quiet => Failed
           /\ Returned =>
                  \A f \in SubdirectoryFiles :
                      /\ IsCommand(f.export)
                      /\ discovery.names[f.export.id] =
                             PathParse(PathBase(f.path)).name

\* The subdirectory of the category holds ban.js and notes.txt: the call
\* failed on notes.txt, which was loaded although it does not end in .js.
C35_Witness ==
    /\ Quiet /\ Failed
    /\ discovery.tree = "subNotAModule"
    /\ discovery.thrown =
         {ImportError(<<"commands/text-input", "ping", "notes.txt">>)}
    /\ Entry(discovery.mapping["K1"], "ban") = S1

\* notes.txt lies in commands/text-input and in events: a Module is
\* returned, with the command and the event handler of the .js files.
C35_TopLevelEntryIgnored ==
    /\ Returned
    /\ discovery.tree = "plain"
    /\ Cardinality(TopLevelNonJsFiles) = 2
    /\ Len(TheModule.commands) = 3
    /\ TheModule.events = <<E1>>

\* ban.mjs lies beside ban.js in the subdirectory and was loaded.
C35_OtherExtensionLoaded ==
    /\ Returned
    /\ discovery.tree = "sameBase"
    /\ discovery.names["S3"] = "ban"

\* The four directories fromDirectory reads under the root, and those of
\* them the directory discovery runs on does not hold.
RequiredDirectories == {TextInput, MessageMenu, UserMenu, Events}
MissingDirectories ==
    {p \in RequiredDirectories : ~Trees[discovery.tree][p].exists}

\* C36: discovery succeeds only if commands/text-input,
\* commands/message-menu, commands/user-menu and events can all be read:
\* when one of them is missing the call never returns a Module and has
\* failed once its operations are over, with the error of the readdir of a
\* missing directory when every file of the other directories is valid.
C36_AllFourDirectoriesAreRequired ==
    (discovery.phase # "idle" /\ MissingDirectories # {})
    => /\ ~Returned
       /\ Quiet => Failed
       /\ (Quiet /\ MalformedFiles = {}) =>
              \E p \in MissingDirectories :
                  /\ discovery.thrown = {ReaddirError(p)}
                  /\ discovery.outcome.error = ReaddirError(p)

\* Only commands/user-menu is missing: the commands of the two other
\* directories were loaded and the call failed on the missing one.
C36_Witness ==
    /\ Quiet /\ Failed
    /\ discovery.tree = "noUserMenu"
    /\ MissingDirectories = {UserMenu}
    /\ MalformedFiles = {}
    /\ discovery.names["T1"] = "ping" /\ discovery.names["G1"] = "ping"
    /\ discovery.outcome.error = ReaddirError(UserMenu)

\* Only events is missing: every command was loaded before the call failed.
C36_EventsMissing ==
    /\ Quiet /\ Failed
    /\ discovery.tree = "noEvents"
    /\ MissingDirectories = {Events}
    /\ discovery.names["T1"] = "ping" /\ discovery.names["U1"] = "ping"
    /\ discovery.outcome.error = ReaddirError(Events)

\* The classes addModules has a branch for.
RegistrableKinds ==
    {"NormalCommand", "CategoryCommand", "UserContextMenuCommand",
     "MessageContextMenuCommand"}

\* The modules with the commands of any other class left out.
Registrable(modules) ==
    [i \in 1..Len(modules) |->
        Module(SelectSeq(modules[i].commands,
                         LAMBDA c : c.kind \in RegistrableKinds),
               modules[i].events)]

\* C37: addModules silently skips a command of a Module's list that is
\* none of NormalCommand, CategoryCommand, UserContextMenuCommand and
\* MessageContextMenuCommand: the call leaves the three tables, the
\* diagnostics and the listeners as the same call without such commands
\* would, raises nothing, no table ever holds such a command and no
\* request of refreshCommands declares one.
C37_OtherClassesAreSkippedSilently ==
    [][/\ IsAddModules' =>
              \E reg \in {addModules(
                            Registry(textInputCommands,
                                     userContextMenuCommands,
                                     messageContextMenuCommands,
                                     listeners, <<>>),
                            Registrable(last'.modules))} :
                  /\ textInputCommands' = reg.text
                  /\ userContextMenuCommands' = reg.user
                  /\ messageContextMenuCommands' = reg.message
                  /\ listeners' = reg.listeners
                  /\ last'.result.warns = reg.warns
                  /\ ~last'.result.raised /\ ~last'.result.rejected
       /\ \A t \in TableNames, n \in Keys :
              Entry(TableNamed(t), n)' # Undefined =>
                  Entry(TableNamed(t), n)'.kind \in RegistrableKinds
       /\ \A i \in 1..Len(puts') :
              \A j \in 1..Len(puts'[i].body) :
                  /\ puts'[i].body[j].command # S0.id
                  /\ puts'[i].body[j].type # "Subcommand"]_vars

\* T1 is registered under ping; a module whose list holds the SubCommand
\* S0, named ping as well, was added: T1 is still the entry and no
\* diagnostic names ping.
C37_Witness ==
    /\ IsAddModules
    /\ \E i \in 1..Len(Flatten(last.modules)) :
           Flatten(last.modules)[i] = S0
    /\ Entry(textInputCommands, "ping") = T1
    /\ \A i \in 1..Len(last.result.warns) :
           last.result.warns[i].name # "ping"

\* How often a value occurs in a sequence.
Count(seq, x) == Cardinality({i \in 1..Len(seq) : seq[i] = x})

\* How often the client holds the listener of an event handler.
Subscriptions(ls, h) ==
    Cardinality({i \in 1..Len(ls) :
                    ls[i].event = h.eventType /\ ls[i].handler = h.id})

\* The modules given are one Module, given over again.
SameModule(modules) ==
    modules # <<>> /\ \A i \in 1..Len(modules) : modules[i] = modules[1]

\* C38: adding the same Module k times leaves the command tables as adding
\* it once does, whether in one addModules call or in calls that follow
\* one another, and subscribes each of its event handlers k times more;
\* an occurrence of an event invokes each handler as many times as it was
\* subscribed under that event.
C38_TablesOnceHandlersEachTime ==
    [][/\ (IsAddModules' /\ SameModule(last'.modules)) =>
              \E once \in {addModules(
                             Registry(textInputCommands,
                                      userContextMenuCommands,
                                      messageContextMenuCommands,
                                      listeners, <<>>),
                             <<last'.modules[1]>>)} :
                  /\ textInputCommands' = once.text
                  /\ userContextMenuCommands' = once.user
                  /\ messageContextMenuCommands' = once.message
                  /\ \A h \in {E1, E2, E3} :
                         Subscriptions(listeners', h) =
                             Subscriptions(listeners, h)
                               + Len(last'.modules)
                                   * Count(last'.modules[1].events, h)
       /\ (IsAddModules /\ IsAddModules' /\ last'.modules = last.modules) =>
              /\ textInputCommands' = textInputCommands
              /\ userContextMenuCommands' = userContextMenuCommands
              /\ messageContextMenuCommands' = messageContextMenuCommands
       /\ IsEmit' =>
              \A h \in {E1, E2, E3} :
                  Count(emission'.ran, h.id) =
                      IF h.eventType = emission'.event
                      THEN Count(subscribed, h) ELSE 0]_vars

\* The module of T1 and E1 was added three times and "ready" emitted: T1
\* is registered as after one addition and E1 ran three times.
C38_Witness ==
    /\ IsEmit /\ emission.event = "ready"
    /\ subscribed = <<E1, E1, E1>>
    /\ emission.ran = <<ReadyLogger, "E1", "E1", "E1">>
    /\ Entry(textInputCommands, "ping") = T1
    /\ userContextMenuCommands = EmptyObject
====
